---------------------------- MODULE Spec2Model ----------------------------
(***************************************************************************)
(* Model of the BMR HC64 Home Assistant integration                        *)
(* (custom_components/bmr_hc64): the update coordinator's poll with its    *)
(* sanity check and exception handling, the entities' update handlers and  *)
(* the entities' write actions against the controller.                     *)
(*                                                                         *)
(* Temperatures are whole degrees Celsius.  A Python value that may be     *)
(* None is a sequence of length 0 (None) or 1 (the value).                 *)
(***************************************************************************)
EXTENDS Integers, Sequences, FiniteSets, TLC

VARIABLES
    dev,      \* the controller as the pybmr client sees it
    data,     \* coordinator.data: None or the stored BmrControllerState
    poll,     \* the running _async_update_data call: position and locals
    ent,      \* the entities' attributes
    tasks,    \* the entity write actions in flight, one record per slot
    hist,     \* history of the current poll and a count of the user's actions
    setup,    \* outcome of async_setup_entry's probe of the controller
    chk       \* sanity_check_circuit_state applied to one drawn input

vars == <<dev, data, poll, ent, tasks, hist, setup, chk>>

---------------------------------------------------------------------------
(* Python's None and optional values *)

None == <<>>

Some(x) == <<x>>

IsNone(o) == Len(o) = 0

Val(o) == o[1]

---------------------------------------------------------------------------
(* Bounds of the model *)

\* number of temperature levels a circuit's sensor moves between
NumTempLevels == 2

\* largest temperature drawn for the sanity check applied on its own
MaxCheckTemp == 11

\* number of entity write actions the user starts in one behaviour
MaxActions == 2

\* number of times a sensor stops or resumes reporting in one behaviour
MaxFaults == 1

\* number of set_temperature actions among the user's actions
MaxSetTemperature == 1

---------------------------------------------------------------------------
(* Program constants *)

\* coordinator.py:26
MAX_TEMPERATURE_DELTA == 5

\* coordinator.py:194, __init__.py:68
AUTH_FAILED_MSG == "Authentication failed, check username/password"

\* coordinator.py:201-202: timedelta(minutes=15)
WINDOW_MINUTES == 15

MinutesPerDay == 24 * 60


---------------------------------------------------------------------------
(* Configuration: the config entry and its circuit subentries *)

\* entry.subentries.values(): the configured circuits, in iteration order.
\* A circuit id is the text the user typed (config_flow.py:133-135).
CircuitOrder == <<"0", "1">>

CircuitIds == {CircuitOrder[i] : i \in 1..Len(CircuitOrder)}

\* Python's int() on the decimal texts the configuration holds
IntOf(s) ==
    CASE s = "0" -> 0
      [] s = "1" -> 1
      [] s = "2" -> 2
      [] s = "3" -> 3
      [] s = "30" -> 30
      [] s = "31" -> 31

\* the circuits the controller addresses: more than the configured ones
DeviceCircuits == {0, 1, 2}

\* subentry.data[CONF_MANUAL_MODE_SCHEDULE]: the override schedule
ManualModeSchedule(c) == IF c = "0" THEN "30" ELSE "31"

\* subentry.data[CONF_AUTO_MODE_DAILY_SCHEDULES]
AutoModeDailySchedules(c) == IF c = "0" THEN <<"1", "2">> ELSE <<"3">>

\* subentry.data[CONF_AUTO_MODE_DAILY_SCHEDULES_STARTING_DAY]
AutoModeStartingDay(c) == IF c = "0" THEN 2 ELSE 1

\* [int(x) for x in xs]
IntList(xs) == [i \in 1..Len(xs) |-> IntOf(xs[i])]

---------------------------------------------------------------------------
(* Values *)

TempLevels == {16 + 6 * k : k \in 0..(NumTempLevels - 1)}

\* what a circuit's sensor reports: a temperature or None
TempValues == {None} \cup {Some(t) : t \in TempLevels}

\* local times of day, in minutes after midnight, at which a call fails
ClockSamples == {10, 720, 1425, 1432}

\* the exceptions a pybmr call raises: type and args
Exceptions ==
    { [type |-> "TimeoutError", args |-> <<>>],
      [type |-> "TimeoutError", args |-> <<"timed out">>],
      [type |-> "Exception",    args |-> <<AUTH_FAILED_MSG>>],
      [type |-> "Exception",    args |-> <<"Connection refused">>],
      [type |-> "Exception",    args |-> <<>>] }


---------------------------------------------------------------------------
(* The sanity check of a circuit reading (coordinator.py:208-239) *)

\* Python's abs() of a bool: True is 1, False is 0
AbsOfBool(b) == IF b THEN 1 ELSE 0

\* Python's truth value of an int
Truthy(n) == n # 0

\* the condition of the last check, as written: the comparison with
\* MAX_TEMPERATURE_DELTA is inside the parentheses of abs()
DeltaTooBig(newTemp, prevTemp) ==
    Truthy(AbsOfBool(newTemp - prevTemp >= MAX_TEMPERATURE_DELTA))

\* faulty variant: an undefined temperature is rejected before the previous
\* state is looked at
sanity_check_circuit_state_UndefinedFirst(circuit_data, previous) ==
    IF IsNone(circuit_data.temperature) THEN FALSE
    ELSE IF IsNone(previous) THEN TRUE
    ELSE IF circuit_data.id # Val(previous).id THEN FALSE
    ELSE IF /\ ~IsNone(Val(previous).temperature)
            /\ DeltaTooBig(Val(circuit_data.temperature),
                           Val(Val(previous).temperature))
         THEN FALSE
    ELSE TRUE

\* faulty variant: an undefined temperature is not looked for
sanity_check_circuit_state_IgnoresUndefined(circuit_data, previous) ==
    IF IsNone(previous) THEN TRUE
    ELSE IF circuit_data.id # Val(previous).id THEN FALSE
    ELSE IF IsNone(circuit_data.temperature) THEN TRUE
    ELSE IF /\ ~IsNone(Val(previous).temperature)
            /\ DeltaTooBig(Val(circuit_data.temperature),
                           Val(Val(previous).temperature))
         THEN FALSE
    ELSE TRUE

\* circuit_data has the keys "id" and "temperature"; previous is None or the
\* CircuitState of the stored snapshot
sanity_check_circuit_state(circuit_data, previous) ==
    IF IsNone(previous) THEN TRUE
    ELSE IF circuit_data.id # Val(previous).id THEN FALSE
    ELSE IF IsNone(circuit_data.temperature) THEN FALSE
    ELSE IF /\ ~IsNone(Val(previous).temperature)
            /\ DeltaTooBig(Val(circuit_data.temperature),
                           Val(Val(previous).temperature))
         THEN FALSE
    ELSE TRUE

---------------------------------------------------------------------------
(* The sanity check applied to one drawn reading and previous state *)

CheckTemps == {None} \cup {Some(t) : t \in 0..MaxCheckTemp}

CheckIds == {0, 1}

CheckReadings == [id : CheckIds, temperature : CheckTemps]

CheckIdle == [pc |-> "idle", new |-> [id |-> 0, temperature |-> None],
              prev |-> None, result |-> FALSE]

CheckInit ==
    \E r \in CheckReadings, p \in {None} \cup {Some(q) : q \in CheckReadings} :
        chk = [pc |-> "input", new |-> r, prev |-> p, result |-> FALSE]

CheckApply ==
    /\ chk.pc = "input"
    /\ chk' = [chk EXCEPT !.pc = "done",
                          !.result = sanity_check_circuit_state(chk.new, chk.prev)]
    /\ UNCHANGED <<dev, data, poll, ent, tasks, hist, setup>>


---------------------------------------------------------------------------
(* The controller behind the pybmr client.  A list the client returns      *)
(* (assignments) is a function on DeviceCircuits, indexed like the list.   *)

AllFalse == [i \in DeviceCircuits |-> FALSE]

DevCircuitInit == [temperature |-> Some(16), target_temperature |-> Some(19),
                   heating |-> FALSE, cooling |-> FALSE]

\* the numbers of the schedules the configuration reserves for overrides
ManualSchedules == {IntOf(ManualModeSchedule(c)) : c \in CircuitIds}

\* the controller's state when the integration is set up: every circuit on
\* the rotation of schedules configured for automatic operation
DevBase ==
    [ unique_id |-> "hc64-a",
      hdo |-> FALSE,
      low_mode |-> [enabled |-> FALSE, temperature |-> None],
      low_mode_assignments |-> AllFalse,
      summer_mode |-> FALSE,
      summer_mode_assignments |-> AllFalse,
      circuit |-> [i \in DeviceCircuits |-> DevCircuitInit],
      schedule |-> [n \in ManualSchedules |-> <<>>],   \* the timetables
      circuit_schedules |->
          [i \in DeviceCircuits |->
              IF i = 0
              THEN [day_schedules |-> <<1, 2>>, starting_day |-> Some(2)]
              ELSE [day_schedules |-> <<3>>, starting_day |-> Some(1)]] ]

\* Bmr.getCircuit(circuit_id): the dict of the circuit's state
getCircuit(d, id) ==
    [ id |-> id,
      temperature |-> d.circuit[id].temperature,
      target_temperature |-> d.circuit[id].target_temperature,
      heating |-> d.circuit[id].heating,
      cooling |-> d.circuit[id].cooling ]

\* Bmr.getCircuitSchedules(circuit_id)
getCircuitSchedules(d, id) == d.circuit_schedules[id]

\* Bmr.setSummerMode(value)
setSummerMode(d, value) == [d EXCEPT !.summer_mode = value]

\* Bmr.setSummerModeAssignments(circuits, value): the listed circuits only
setSummerModeAssignments(d, ids, value) ==
    [d EXCEPT !.summer_mode_assignments =
        [i \in DeviceCircuits |-> IF i \in ids THEN value ELSE @[i]]]

\* Bmr.setCircuitSchedules(circuit_id, day_schedules, starting_day);
\* starting_day is None when the caller passes none (the client's default)
setCircuitSchedules(d, id, day_schedules, starting_day) ==
    [d EXCEPT !.circuit_schedules[id] =
        [day_schedules |-> day_schedules, starting_day |-> starting_day]]

\* Bmr.setLowMode(enabled, temperature=None): without a temperature the
\* controller keeps the one it has
setLowMode(d, enabled, temperature) ==
    [d EXCEPT !.low_mode =
        [enabled |-> enabled,
         temperature |-> IF IsNone(temperature) THEN @.temperature
                         ELSE temperature]]

\* Bmr.setLowModeAssignments(circuits, value): the listed circuits only
setLowModeAssignments(d, ids, value) ==
    [d EXCEPT !.low_mode_assignments =
        [i \in DeviceCircuits |-> IF i \in ids THEN value ELSE @[i]]]

\* Bmr.setSchedule(schedule_id, name, timetable)
setSchedule(d, schedule_id, timetable) ==
    [d EXCEPT !.schedule[schedule_id] = timetable]

\* the global flags and assignment lists the controller holds at one instant
FlagsOf(r) ==
    [ low_enabled |-> r.low_mode.enabled,
      low_mode_assignments |-> r.low_mode_assignments,
      summer_mode |-> r.summer_mode,
      summer_mode_assignments |-> r.summer_mode_assignments ]

---------------------------------------------------------------------------
(* Exception handling of the poll and of the setup probe *)

\* coordinator.py imports timedelta from datetime and nothing else of it
\* (lines 3-21): the name datetime is not bound in the module
CoordinatorBindsDatetime == FALSE

\* __init__.py imports nothing of datetime (lines 8-32)
InitBindsDatetime == FALSE

\* dt_now.date() == dt_ago.date() and dt_now.date() == dt_ahead.date(),
\* with now in minutes after local midnight
SameDateAround(now) ==
    /\ now - WINDOW_MINUTES >= 0
    /\ now + WINDOW_MINUTES < MinutesPerDay

\* faulty variant: the message is looked at before the type of the exception
HandleException_ArgsFirst(exc, now, bindsDatetime) ==
    IF Len(exc.args) = 0 THEN "IndexError"
    ELSE IF exc.args[1] = AUTH_FAILED_MSG
         THEN IF ~bindsDatetime THEN "NameError"
              ELSE IF SameDateAround(now) THEN "ConfigEntryAuthFailed"
              ELSE "ConfigEntryError"
    ELSE IF exc.type = "TimeoutError" THEN "ConfigEntryNotReady"
    ELSE "ConfigEntryError"

\* What the except clauses make of an exception raised inside the try block:
\* the name of the exception that leaves the function.
HandleException(exc, now, bindsDatetime) ==
    IF exc.type = "TimeoutError" THEN "ConfigEntryNotReady"
    ELSE IF Len(exc.args) = 0 THEN "IndexError"            \* e.args[0]
    ELSE IF exc.args[1] = AUTH_FAILED_MSG
         THEN IF ~bindsDatetime THEN "NameError"           \* datetime.now()
              ELSE IF SameDateAround(now) THEN "ConfigEntryAuthFailed"
              ELSE "ConfigEntryError"
    ELSE "ConfigEntryError"

\* _async_update_data, lines 189-206
PollHandleException(exc, now) ==
    HandleException(exc, now, CoordinatorBindsDatetime)

\* async_setup_entry, lines 63-80
SetupHandleException(exc, now) ==
    HandleException(exc, now, InitBindsDatetime)


---------------------------------------------------------------------------
(* The entities (climate.py, sensor.py, binary_sensor.py, switch.py) *)

HVAC_NONE == "None"
HVAC_OFF == "off"
HVAC_HEAT == "heat"
HVAC_COOL == "cool"
HVAC_HEAT_COOL == "heat_cool"
HVAC_AUTO == "auto"

CLIMATE_PRESET_NONE == "none"
CLIMATE_PRESET_AWAY == "away"

\* BmrClimateEntity.__init__ (climate.py:131-181)
ClimateInit ==
    [ circuit_state |-> None,
      summer_mode |-> None,
      summer_mode_assignments |-> None,
      low_mode |-> None,
      preset_mode |-> "None",
      hvac_mode |-> HVAC_NONE,
      hvac_action |-> "None",
      current_temperature |-> None,
      target_temperature |-> None ]

\* BmrCircuitTemperature.__init__, BmrCircuitTargetTemperature.__init__
SensorInit == [circuit_state |-> None, native_value |-> None]

\* faulty variant: away whenever the low mode is known
update_preset_mode_AlwaysAway(e) ==
    IF IsNone(e.low_mode) THEN "None"
    ELSE CLIMATE_PRESET_AWAY

\* climate.py:198-205
update_preset_mode(e) ==
    IF IsNone(e.low_mode) THEN "None"
    ELSE IF Val(e.low_mode).enabled THEN CLIMATE_PRESET_AWAY
    ELSE CLIMATE_PRESET_NONE

\* faulty variant: the override schedule is looked at before the summer mode
update_hvac_mode_ScheduleFirst(e, c, enable_cooling) ==
    IF \/ IsNone(e.circuit_state)
       \/ IsNone(e.summer_mode)
       \/ IsNone(e.summer_mode_assignments)
    THEN HVAC_NONE
    ELSE IF <<IntOf(ManualModeSchedule(c))>>
                = Val(e.circuit_state).schedules.day_schedules
         THEN IF enable_cooling THEN HVAC_HEAT_COOL ELSE HVAC_HEAT
    ELSE IF Val(e.summer_mode_assignments)[IntOf(c)] THEN HVAC_OFF
    ELSE HVAC_AUTO

\* climate.py:207-239
update_hvac_mode(e, c, enable_cooling) ==
    IF \/ IsNone(e.circuit_state)
       \/ IsNone(e.summer_mode)
       \/ IsNone(e.summer_mode_assignments)
    THEN HVAC_NONE
    ELSE IF Val(e.summer_mode_assignments)[IntOf(c)] THEN HVAC_OFF
    ELSE IF <<IntOf(ManualModeSchedule(c))>>
                = Val(e.circuit_state).schedules.day_schedules
         THEN IF enable_cooling THEN HVAC_HEAT_COOL ELSE HVAC_HEAT
    ELSE HVAC_AUTO

\* faulty variant: the cooling flag is looked at before the heating flag
update_hvac_action_CoolingFirst(e, c) ==
    IF \/ IsNone(e.circuit_state)
       \/ IsNone(e.summer_mode)
       \/ IsNone(e.summer_mode_assignments)
    THEN "None"
    ELSE IF Val(e.summer_mode_assignments)[IntOf(c)] THEN "off"
    ELSE IF Val(e.circuit_state).cooling THEN "cooling"
    ELSE IF Val(e.circuit_state).heating THEN "heating"
    ELSE "idle"

\* climate.py:241-262
update_hvac_action(e, c) ==
    IF \/ IsNone(e.circuit_state)
       \/ IsNone(e.summer_mode)
       \/ IsNone(e.summer_mode_assignments)
    THEN "None"
    ELSE IF Val(e.summer_mode_assignments)[IntOf(c)] THEN "off"
    ELSE IF Val(e.circuit_state).heating THEN "heating"
    ELSE IF Val(e.circuit_state).cooling THEN "cooling"
    ELSE "idle"

\* does self.coordinator.data.circuits[self._circuit_id] raise KeyError
RaisesKeyError(snapshot, c) == c \notin DOMAIN snapshot.circuits

\* BmrClimateEntity._handle_coordinator_update (climate.py:183-196); the
\* subscript of line 186 raises before anything is assigned
ClimateHandleUpdate(e, c, snapshot, enable_cooling) ==
    IF RaisesKeyError(snapshot, c) THEN e
    ELSE LET e1 == [e EXCEPT
                      !.circuit_state = Some(snapshot.circuits[c]),
                      !.summer_mode = Some(snapshot.summer_mode),
                      !.summer_mode_assignments =
                          Some(snapshot.summer_mode_assignments),
                      !.low_mode = Some(snapshot.low_mode)]
         IN [e1 EXCEPT
               !.preset_mode = update_preset_mode(e1),
               !.hvac_mode = update_hvac_mode(e1, c, enable_cooling),
               !.hvac_action = update_hvac_action(e1, c),
               !.current_temperature = Val(e1.circuit_state).temperature,
               !.target_temperature =
                   Val(e1.circuit_state).target_temperature]

\* BmrCircuitTemperature._handle_coordinator_update (sensor.py:103-108)
TemperatureHandleUpdate(e, c, snapshot) ==
    IF RaisesKeyError(snapshot, c) THEN e
    ELSE [circuit_state |-> Some(snapshot.circuits[c]),
          native_value |-> snapshot.circuits[c].temperature]

\* BmrCircuitTargetTemperature._handle_coordinator_update (sensor.py:162-167)
TargetTemperatureHandleUpdate(e, c, snapshot) ==
    IF RaisesKeyError(snapshot, c) THEN e
    ELSE [circuit_state |-> Some(snapshot.circuits[c]),
          native_value |-> snapshot.circuits[c].target_temperature]

\* faulty variant: on only when summer mode is off and a circuit is unassigned
PowerIsOn_Neither(snapshot) ==
    /\ ~snapshot.summer_mode
    /\ ~(\A c \in CircuitIds : snapshot.summer_mode_assignments[IntOf(c)])

\* BmrControllerPowerSwitch._handle_coordinator_update (switch.py:162-172)
PowerIsOn(snapshot) ==
    ~( /\ snapshot.summer_mode
       /\ \A c \in CircuitIds : snapshot.summer_mode_assignments[IntOf(c)] )

\* the entities whose handler raises on this snapshot: the climate entity
\* and the two sensors of every circuit the snapshot omits
RaisingEntities(snapshot) ==
    {<<kind, c>> : kind \in {"climate", "temperature", "target_temperature"},
                   c \in {x \in CircuitIds : RaisesKeyError(snapshot, x)}}

\* The listeners run on one new snapshot.  Each entity's handler is applied
\* to its own attributes; a handler that raises leaves them as they were.
HandleCoordinatorUpdate(e, snapshot) ==
    [ e EXCEPT
        !.climate = [c \in CircuitIds |->
            ClimateHandleUpdate(e.climate[c], c, snapshot, e.enable_cooling)],
        !.temperature = [c \in CircuitIds |->
            TemperatureHandleUpdate(e.temperature[c], c, snapshot)],
        !.target_temperature = [c \in CircuitIds |->
            TargetTemperatureHandleUpdate(e.target_temperature[c], c, snapshot)],
        !.hdo_is_on = Some(snapshot.hdo),
        !.away_is_on = Some(snapshot.low_mode.enabled),
        !.power_is_on = Some(PowerIsOn(snapshot)),
        !.raised = RaisingEntities(snapshot),
        !.delivered = TRUE ]

(* Config entries and the entities' unique ids.  A config entry is one    *)
(* controller (config_flow.py:257-259), its subentries are its circuits   *)
(* (config_flow.py:360-364); each platform's async_setup_entry creates    *)
(* the entry's entities of its kind.                                      *)

ConfigEntryIds == {1, 2}

\* what Bmr.getUniqueId() returns for the controllers
ControllerUniqueIds == {"hc64-a", "hc64-b"}

\* __init__.py:34-39
PLATFORMS == {"binary_sensor", "climate", "sensor", "switch"}

\* str() of an optional string, as an f-string formats it
Str(o) == IF IsNone(o) THEN "None" ELSE Val(o)

\* config_flow.py:363
CircuitUniqueId(c) == "circuit-" \o c

\* climate.py:148
ClimateUniqueId(controller_unique_id, circuit_unique_id) ==
    controller_unique_id \o "-" \o circuit_unique_id \o "-climate"

\* sensor.py:77
TemperatureUniqueId(controller_unique_id, circuit_unique_id) ==
    controller_unique_id \o "-" \o circuit_unique_id \o "-temperature"

\* sensor.py:135-137
TargetTemperatureUniqueId(controller_unique_id, circuit_unique_id) ==
    controller_unique_id \o "-" \o circuit_unique_id \o "-target-temperature"

\* switch.py:75
AwayModeSwitchUniqueId(controller_unique_id) ==
    controller_unique_id \o "-away-mode-switch"

\* switch.py:154
PowerSwitchUniqueId(controller_unique_id) ==
    controller_unique_id \o "-power-switch"

\* the entity's _attr_unique_id when BmrControllerHDO.__init__ reads it:
\* nothing has assigned it, it is the class default
AttrUniqueIdDefault == None

\* binary_sensor.py:53: the f-string formats self._attr_unique_id, not the
\* parameter controller_unique_id
HDOUniqueId(controller_unique_id) ==
    Str(AttrUniqueIdDefault) \o "-binary-sensor-hdo"

\* entries: per config entry None, or its controller's unique id, its
\* circuits and the platforms set up; entities: the entities created
RegistryInit ==
    [ entries |-> [e \in ConfigEntryIds |-> None],
      entities |-> {} ]

Entity(e, platform, unique_id) ==
    [entry |-> e, platform |-> platform, unique_id |-> unique_id]

EntInit(enable_cooling) ==
    [ enable_cooling |-> enable_cooling,
      subscribed |-> FALSE,
      delivered |-> FALSE,
      climate |-> [c \in CircuitIds |-> ClimateInit],
      temperature |-> [c \in CircuitIds |-> SensorInit],
      target_temperature |-> [c \in CircuitIds |-> SensorInit],
      hdo_is_on |-> None,
      away_is_on |-> None,
      power_is_on |-> None,
      raised |-> {},
      registry |-> RegistryInit ]


---------------------------------------------------------------------------
(* The poll: BmrUpdateCoordinator._async_update_data (coordinator.py:116-206) *)
(* One action per awaited pybmr call; the code between two awaits runs      *)
(* with the call before it.                                                 *)

EmptyMap == [c \in {} |-> None]

PollIdle ==
    [ pc |-> "idle",
      idx |-> 1,
      unique_id |-> None,
      hdo |-> None,
      low_mode |-> None,
      low_mode_assignments |-> None,
      summer_mode |-> None,
      summer_mode_assignments |-> None,
      circuit_data |-> None,
      circuits |-> EmptyMap,      \* the dict built by the loop
      fetched |-> EmptyMap,       \* circuit id -> what this poll read for it
      accepted |-> EmptyMap,      \* circuit id -> verdict of the sanity check
      failed_at |-> "",
      exc |-> None,
      now |-> 0,
      raised |-> "" ]

\* the positions of the awaited reads, in program order
ReadPositions ==
    {"getUniqueId", "getHDO", "getLowMode", "getLowModeAssignments",
     "getSummerMode", "getSummerModeAssignments", "getCircuit",
     "getCircuitSchedules"}

PollInFlight == poll.pc \in ReadPositions

\* CircuitState(...) of lines 162-177
CircuitStateOf(circuit_data, circuit_schedules) ==
    [ id |-> circuit_data.id,
      temperature |-> circuit_data.temperature,
      target_temperature |-> circuit_data.target_temperature,
      heating |-> circuit_data.heating,
      cooling |-> circuit_data.cooling,
      schedules |-> circuit_schedules ]

\* faulty variant: a circuit the stored snapshot omits is compared with the
\* state of a circuit the snapshot holds
PreviousCircuitState_OtherCircuit(stored, c) ==
    IF IsNone(stored) THEN None
    ELSE IF c \in DOMAIN Val(stored).circuits THEN Some(Val(stored).circuits[c])
    ELSE IF DOMAIN Val(stored).circuits = {} THEN None
    ELSE Some(Val(stored).circuits[CHOOSE x \in DOMAIN Val(stored).circuits : TRUE])

\* self.data.circuits.get(circuit_id) if self.data else None (lines 156-158)
PreviousCircuitState(stored, c) ==
    IF IsNone(stored) THEN None
    ELSE IF c \in DOMAIN Val(stored).circuits THEN Some(Val(stored).circuits[c])
    ELSE None

\* faulty variant: a rejected reading starts the dict over
CircuitsAfter_RejectClears(circuits, c, circuit_data, circuit_schedules, stored) ==
    IF sanity_check_circuit_state(circuit_data, PreviousCircuitState(stored, c))
    THEN [x \in DOMAIN circuits \cup {c} |->
            IF x = c THEN CircuitStateOf(circuit_data, circuit_schedules)
            ELSE circuits[x]]
    ELSE EmptyMap

\* the circuits dict after the body of the loop for circuit c (lines 159-177)
CircuitsAfter(circuits, c, circuit_data, circuit_schedules, stored) ==
    IF sanity_check_circuit_state(circuit_data, PreviousCircuitState(stored, c))
    THEN [x \in DOMAIN circuits \cup {c} |->
            IF x = c THEN CircuitStateOf(circuit_data, circuit_schedules)
            ELSE circuits[x]]
    ELSE circuits

\* BmrControllerState(...) of lines 179-187
BmrControllerState(p, circuits) ==
    [ unique_id |-> Val(p.unique_id),
      hdo |-> Val(p.hdo),
      low_mode |-> Val(p.low_mode),
      low_mode_assignments |-> Val(p.low_mode_assignments),
      summer_mode |-> Val(p.summer_mode),
      summer_mode_assignments |-> Val(p.summer_mode_assignments),
      circuits |-> circuits ]

\* The log of the action observed last (kept when hist.watch is not "off"):
\*   pre: the controller when the action started; calls: the writing pybmr
\*   calls it has made; ids: the circuits its assignment call listed;
\*   cached: the entity's hvac_mode as set_temperature read it; done: it has
\*   returned; before: the log of the action completed before it;
\*   polls: 0 no poll has started since it returned, 1 such a poll is in
\*   flight, 2 the first such poll has returned, 3 a later poll has started;
\*   raised: the pybmr call that raised and ended the action, "" if none;
\*   refreshes: the action's calls of coordinator.async_request_refresh().
LogNone ==
    [ kind |-> "", c |-> "", mode |-> "", temperature |-> None,
      pre |-> None, calls |-> {}, ids |-> {}, cached |-> "", done |-> FALSE,
      before |-> None, polls |-> 0, raised |-> "", refreshes |-> 0 ]

\* the log's count of polls when a poll starts, returns or fails
LogPoll(h, event) ==
    IF h.watch # "polls" \/ ~h.log.done THEN h
    ELSE [h EXCEPT !.log.polls =
            CASE event = "start" /\ @ = 0 -> 1
              [] event = "start" /\ @ = 2 -> 3
              [] event = "return" /\ @ = 1 -> 2
              [] event = "raise" /\ @ = 1 -> 0
              [] OTHER -> @]

\* What is remembered of the snapshot a returning poll replaces (kept when
\* hist.watch is "snapshots"): omitted, the configured circuits it did not
\* hold; temps, for each of these the temperature of the snapshot that was
\* replaced by it; pending, for each circuit the new snapshot omits the
\* temperature of the replaced one.  None where there is nothing to keep.
LastNone ==
    [ omitted |-> {},
      temps |-> [c \in CircuitIds |-> None],
      pending |-> [c \in CircuitIds |-> None] ]

LastAfter(h, stored, circuits) ==
    IF h.watch # "snapshots" \/ IsNone(stored) THEN h.last
    ELSE [ omitted |-> CircuitIds \ DOMAIN Val(stored).circuits,
           temps |-> [c \in CircuitIds |->
               IF c \in DOMAIN Val(stored).circuits THEN None
               ELSE h.last.pending[c]],
           pending |-> [c \in CircuitIds |->
               IF c \notin DOMAIN circuits /\ c \in DOMAIN Val(stored).circuits
               THEN Some(Val(stored).circuits[c].temperature)
               ELSE None] ]

\* the scheduler starts a poll: never a second one while one is in flight
PollStart ==
    /\ setup.pc = "ok"
    /\ ~PollInFlight
    /\ poll' = [PollIdle EXCEPT !.pc = "getUniqueId"]
    /\ hist' = [LogPoll(hist, "start") EXCEPT
                     !.prevData = data,
                     !.seen = {FlagsOf(dev)},
                     !.wrote = FALSE,
                     !.consistent = FALSE]
    /\ UNCHANGED <<dev, data, ent, tasks, setup, chk>>

PollGetUniqueId ==
    /\ poll.pc = "getUniqueId"
    /\ poll' = [poll EXCEPT !.unique_id = Some(dev.unique_id), !.pc = "getHDO"]
    /\ UNCHANGED <<dev, data, ent, tasks, hist, setup, chk>>

PollGetHDO ==
    /\ poll.pc = "getHDO"
    /\ poll' = [poll EXCEPT !.hdo = Some(dev.hdo), !.pc = "getLowMode"]
    /\ UNCHANGED <<dev, data, ent, tasks, hist, setup, chk>>

PollGetLowMode ==
    /\ poll.pc = "getLowMode"
    /\ poll' = [poll EXCEPT !.low_mode = Some(dev.low_mode),
                            !.pc = "getLowModeAssignments"]
    /\ UNCHANGED <<dev, data, ent, tasks, hist, setup, chk>>

PollGetLowModeAssignments ==
    /\ poll.pc = "getLowModeAssignments"
    /\ poll' = [poll EXCEPT
                  !.low_mode_assignments = Some(dev.low_mode_assignments),
                  !.pc = "getSummerMode"]
    /\ UNCHANGED <<dev, data, ent, tasks, hist, setup, chk>>

PollGetSummerMode ==
    /\ poll.pc = "getSummerMode"
    /\ poll' = [poll EXCEPT !.summer_mode = Some(dev.summer_mode),
                            !.pc = "getSummerModeAssignments"]
    /\ UNCHANGED <<dev, data, ent, tasks, hist, setup, chk>>

\* faulty variant: the list is read with the low-mode getter
PollGetSummerModeAssignments_LowList ==
    /\ poll.pc = "getSummerModeAssignments"
    /\ poll' = [poll EXCEPT
                  !.summer_mode_assignments = Some(dev.low_mode_assignments),
                  !.pc = "getCircuit"]
    /\ UNCHANGED <<dev, data, ent, tasks, hist, setup, chk>>

PollGetSummerModeAssignments ==
    /\ poll.pc = "getSummerModeAssignments"
    /\ poll' = [poll EXCEPT
                  !.summer_mode_assignments = Some(dev.summer_mode_assignments),
                  !.pc = "getCircuit"]
    /\ UNCHANGED <<dev, data, ent, tasks, hist, setup, chk>>

PollGetCircuit ==
    /\ poll.pc = "getCircuit"
    /\ poll' = [poll EXCEPT
                  !.circuit_data =
                      Some(getCircuit(dev, IntOf(CircuitOrder[poll.idx]))),
                  !.pc = "getCircuitSchedules"]
    /\ UNCHANGED <<dev, data, ent, tasks, hist, setup, chk>>

\* the entities exist, and listen, once the first refresh has succeeded
\* (__init__.py:92-99); from then on every new snapshot is handed to them
EntitiesAfter(e, snapshot) ==
    IF e.subscribed THEN HandleCoordinatorUpdate(e, snapshot)
    ELSE [e EXCEPT !.subscribed = TRUE]

\* The last awaited read of a circuit, the sanity check; after the last
\* circuit the function returns, the snapshot is stored and the listeners run.
PollGetCircuitSchedules ==
    /\ poll.pc = "getCircuitSchedules"
    /\ LET c == CircuitOrder[poll.idx]
           circuit_data == Val(poll.circuit_data)
           circuit_schedules == getCircuitSchedules(dev, IntOf(c))
           circuits == CircuitsAfter(poll.circuits, c, circuit_data,
                                     circuit_schedules, data)
           p1 == [poll EXCEPT
                    !.circuits = circuits,
                    !.circuit_data = None,
                    !.fetched = [x \in DOMAIN @ \cup {c} |->
                        IF x = c
                        THEN CircuitStateOf(circuit_data, circuit_schedules)
                        ELSE @[x]],
                    !.accepted = [x \in DOMAIN @ \cup {c} |->
                        IF x = c
                        THEN sanity_check_circuit_state(circuit_data,
                                 PreviousCircuitState(data, c))
                        ELSE @[x]]]
       IN IF poll.idx < Len(CircuitOrder)
          THEN /\ poll' = [p1 EXCEPT !.idx = @ + 1, !.pc = "getCircuit"]
               /\ UNCHANGED <<data, ent, hist>>
          ELSE /\ poll' = [p1 EXCEPT !.pc = "done"]
               /\ data' = Some(BmrControllerState(poll, circuits))
               /\ ent' = EntitiesAfter(ent, BmrControllerState(poll, circuits))
               /\ hist' = [LogPoll(hist, "return") EXCEPT
                     !.prevData = None,
                     !.seen = {},
                     !.consistent =
                         FlagsOf(BmrControllerState(poll, circuits)) \in hist.seen,
                     !.last = LastAfter(hist, data, circuits)]
    /\ UNCHANGED <<dev, tasks, setup, chk>>

\* the clock is read only where the handler reads it: for the
\* authentication message
ClockFor(exc) ==
    IF Len(exc.args) > 0 /\ exc.args[1] = AUTH_FAILED_MSG THEN ClockSamples
    ELSE {0}

\* faulty variant: a failed poll drops the stored snapshot
PollRaise_DropsData ==
    /\ PollInFlight
    /\ \E exc \in Exceptions : \E now \in ClockFor(exc) :
          poll' = [PollIdle EXCEPT !.pc = "failed",
                                   !.failed_at = poll.pc,
                                   !.exc = Some(exc),
                                   !.now = now,
                                   !.raised = PollHandleException(exc, now)]
    /\ data' = None
    /\ hist' = LogPoll(hist, "raise")
    /\ UNCHANGED <<dev, ent, tasks, setup, chk>>

\* the awaited pybmr call at the current position raises
PollRaise ==
    /\ PollInFlight
    /\ \E exc \in Exceptions : \E now \in ClockFor(exc) :
          poll' = [PollIdle EXCEPT !.pc = "failed",
                                   !.failed_at = poll.pc,
                                   !.exc = Some(exc),
                                   !.now = now,
                                   !.raised = PollHandleException(exc, now)]
    /\ hist' = LogPoll(hist, "raise")
    /\ UNCHANGED <<dev, data, ent, tasks, setup, chk>>

\* the awaited pybmr call at the current position times out (the one
\* failure of PollRaise that the host retries by itself)
PollTimeout ==
    /\ PollInFlight
    /\ LET exc == [type |-> "TimeoutError", args |-> <<>>]
       IN poll' = [PollIdle EXCEPT !.pc = "failed",
                                   !.failed_at = poll.pc,
                                   !.exc = Some(exc),
                                   !.now = 0,
                                   !.raised = PollHandleException(exc, 0)]
    /\ hist' = LogPoll(hist, "raise")
    /\ UNCHANGED <<dev, data, ent, tasks, setup, chk>>

---------------------------------------------------------------------------
(* async_setup_entry's probe of the controller (__init__.py:61-80) *)

SetupInit == [pc |-> "start", exc |-> None, now |-> 0, raised |-> ""]

SetupProbeOk ==
    /\ setup.pc = "start"
    /\ setup' = [setup EXCEPT !.pc = "ok"]
    /\ UNCHANGED <<dev, data, poll, ent, tasks, hist, chk>>

SetupProbeRaise ==
    /\ setup.pc = "start"
    /\ \E exc \in Exceptions : \E now \in ClockFor(exc) :
          setup' = [pc |-> "failed", exc |-> Some(exc), now |-> now,
                    raised |-> SetupHandleException(exc, now)]
    /\ UNCHANGED <<dev, data, poll, ent, tasks, hist, chk>>

\* the host sets the entry up again after ConfigEntryNotReady
SetupRetry ==
    /\ setup.pc = "failed"
    /\ setup.raised = "ConfigEntryNotReady"
    /\ setup' = SetupInit
    /\ UNCHANGED <<dev, data, poll, ent, tasks, hist, chk>>

---------------------------------------------------------------------------
(* The environment: a circuit's sensor reports another temperature *)

SensorChange ==
    /\ \E c \in CircuitIds, t \in TempValues :
          /\ dev.circuit[IntOf(c)].temperature # t
          /\ dev' = [dev EXCEPT !.circuit[IntOf(c)].temperature = t]
    /\ UNCHANGED <<data, poll, ent, tasks, hist, setup, chk>>

\* a circuit's sensor stops reporting (the client returns None for the
\* temperature) or reports again
SensorFault ==
    /\ hist.nFaults < MaxFaults
    /\ \E c \in CircuitIds :
          dev' = [dev EXCEPT !.circuit[IntOf(c)].temperature =
                     IF IsNone(@) THEN DevCircuitInit.temperature ELSE None]
    /\ hist' = [hist EXCEPT !.nFaults = @ + 1]
    /\ UNCHANGED <<data, poll, ent, tasks, setup, chk>>

\* the controller starts or stops heating or cooling a circuit: the flags
\* "heating" and "cooling" of the dict getCircuit returns
ActuatorChange ==
    /\ \E c \in CircuitIds, heating \in BOOLEAN, cooling \in BOOLEAN :
          /\ <<heating, cooling>>
                # <<dev.circuit[IntOf(c)].heating, dev.circuit[IntOf(c)].cooling>>
          /\ dev' = [dev EXCEPT !.circuit[IntOf(c)].heating = heating,
                                !.circuit[IntOf(c)].cooling = cooling]
    /\ UNCHANGED <<data, poll, ent, tasks, hist, setup, chk>>

---------------------------------------------------------------------------
(* The entities' write actions.  A task is one running action; each awaited *)
(* pybmr call is one step of it.                                            *)

TaskIds == {1, 2}

TaskIdle == [pc |-> "idle", kind |-> "", c |-> "", mode |-> "",
             temperature |-> None]

\* self._attr_hvac_modes (climate.py:167-176)
HvacModes(enable_cooling) ==
    IF enable_cooling
    THEN {HVAC_AUTO, HVAC_COOL, HVAC_HEAT, HVAC_HEAT_COOL, HVAC_OFF}
    ELSE {HVAC_AUTO, HVAC_HEAT, HVAC_OFF}

\* entry.data[CONF_AWAY_TEMPERATURE], left at the form's default
\* (config_flow.py:44)
DEFAULT_AWAY_TEMPERATURE == 18

\* the target temperatures the user asks for
TargetTemps == {20, 23}

Watching(h) == h.watch # "off"

\* what the log keeps of the controller: its flags, lists and assignments
\* of schedules
LogView(d) ==
    [ low_mode |-> d.low_mode,
      low_mode_assignments |-> d.low_mode_assignments,
      summer_mode |-> d.summer_mode,
      summer_mode_assignments |-> d.summer_mode_assignments,
      circuit_schedules |-> d.circuit_schedules ]

LogStart(h, kind, c, mode, temperature) ==
    IF Watching(h)
    THEN [h EXCEPT !.log =
            [LogNone EXCEPT
               !.kind = kind, !.c = c, !.mode = mode,
               !.temperature = temperature,
               !.pre = Some(LogView(dev)),
               !.before = IF h.log.done
                          THEN Some([kind |-> h.log.kind, c |-> h.log.c,
                                     mode |-> h.log.mode,
                                     calls |-> h.log.calls,
                                     pre |-> h.log.pre])
                          ELSE None]]
    ELSE h

\* the refresh requests between an action's last pybmr call and its return:
\* the one that ends the action (climate.py:356, 395, 420; switch.py:114,
\* 131, 196, 219) and, when async_set_temperature has awaited
\* async_set_hvac_mode, the one of line 356 before the one of line 420
RefreshRequests(kind, name) ==
    IF kind = "set_temperature" /\ name = "setCircuitSchedules" THEN 2 ELSE 1

\* the logged action returns, having requested n refreshes
LogReturn(h, n) ==
    IF Watching(h)
    THEN [h EXCEPT !.log.done = TRUE, !.log.refreshes = @ + n]
    ELSE h

\* a pybmr call has changed the controller: d is its new state; last tells
\* that the action returns after it (having requested a refresh)
Written(d, name, last) ==
    /\ dev' = d
    /\ LET h1 == IF PollInFlight
                 THEN [hist EXCEPT !.wrote = TRUE,
                                   !.seen = @ \cup {FlagsOf(d)}]
                 ELSE hist
           h2 == IF Watching(hist)
                 THEN [h1 EXCEPT !.log.calls = @ \cup {name}]
                 ELSE h1
       IN hist' = IF last
                  THEN LogReturn(h2, RefreshRequests(hist.log.kind, name))
                  ELSE h2

\* the user starts an action on an entity; the entities exist after the
\* first refresh
StartTaskWith(t, kind, c, mode, pc, temperature) ==
    /\ ent.subscribed
    /\ tasks[t].pc = "idle"
    /\ hist.nActs < MaxActions
    /\ tasks' = [tasks EXCEPT
                   ![t] = [pc |-> pc, kind |-> kind, c |-> c, mode |-> mode,
                           temperature |-> temperature]]
    /\ hist' = [LogStart(hist, kind, c, mode, temperature) EXCEPT
                  !.nActs = @ + 1,
                  !.nTemps = IF kind = "set_temperature" THEN @ + 1 ELSE @]
    /\ UNCHANGED <<dev, data, poll, ent, setup, chk>>

StartTask(t, kind, c, mode, pc) == StartTaskWith(t, kind, c, mode, pc, None)

Goto(t, pc) == tasks' = [tasks EXCEPT ![t].pc = pc]

\* the action has made its last call and requested a refresh
Finish(t) == tasks' = [tasks EXCEPT ![t] = TaskIdle]

\* any(xs) of a list of booleans
AnyOf(xs) == \E i \in DOMAIN xs : xs[i]

(* BmrClimateEntity.async_set_hvac_mode (climate.py:278-356), called by    *)
(* the user or by async_set_temperature (climate.py:413-417)               *)

InSetHvacMode(t) == tasks[t].kind \in {"set_hvac_mode", "set_temperature"}

SetHvacModeStart(t) ==
    \E c \in CircuitIds : \E mode \in HvacModes(ent.enable_cooling) :
        StartTask(t, "set_hvac_mode", c, mode, "setSummerModeAssignments")

\* as SetHvacModeAssign, the call listing every circuit of the controller
SetHvacModeAssign_AllCircuits(t) ==
    /\ InSetHvacMode(t)
    /\ tasks[t].pc = "setSummerModeAssignments"
    /\ Written(setSummerModeAssignments(dev, DeviceCircuits,
                                        tasks[t].mode = HVAC_OFF),
               "setSummerModeAssignments", FALSE)
    /\ Goto(t, IF tasks[t].mode = HVAC_OFF THEN "getSummerMode"
               ELSE "getSummerModeAssignments")
    /\ UNCHANGED <<data, poll, ent, setup, chk>>

\* lines 293-297 and 313-317
SetHvacModeAssign(t) ==
    /\ InSetHvacMode(t)
    /\ tasks[t].pc = "setSummerModeAssignments"
    /\ Written(setSummerModeAssignments(dev, {IntOf(tasks[t].c)},
                                        tasks[t].mode = HVAC_OFF),
               "setSummerModeAssignments", FALSE)
    /\ Goto(t, IF tasks[t].mode = HVAC_OFF THEN "getSummerMode"
               ELSE "getSummerModeAssignments")
    /\ UNCHANGED <<data, poll, ent, setup, chk>>

\* lines 298-302: if not getSummerMode()
SetHvacModeGetSummerMode(t) ==
    /\ InSetHvacMode(t)
    /\ tasks[t].pc = "getSummerMode"
    /\ Goto(t, IF ~dev.summer_mode THEN "setSummerMode"
               ELSE "setCircuitSchedules")
    /\ UNCHANGED <<dev, data, poll, ent, hist, setup, chk>>

\* faulty variant: low mode is switched on whatever getLowMode returns
SetPresetModeGetLowMode_Always(t) ==
    /\ tasks[t].kind = "set_preset_mode"
    /\ tasks[t].pc = "getLowMode"
    /\ Goto(t, "setLowMode")
    /\ UNCHANGED <<dev, data, poll, ent, hist, setup, chk>>

\* faulty variant: summer mode is switched off whatever remains assigned
SetHvacModeGetAssignments_Always(t) ==
    /\ InSetHvacMode(t)
    /\ tasks[t].pc = "getSummerModeAssignments"
    /\ Goto(t, "setSummerMode")
    /\ UNCHANGED <<dev, data, poll, ent, hist, setup, chk>>

\* lines 318-322: if not any(getSummerModeAssignments())
SetHvacModeGetAssignments(t) ==
    /\ InSetHvacMode(t)
    /\ tasks[t].pc = "getSummerModeAssignments"
    /\ Goto(t, IF ~AnyOf(dev.summer_mode_assignments) THEN "setSummerMode"
               ELSE "setCircuitSchedules")
    /\ UNCHANGED <<dev, data, poll, ent, hist, setup, chk>>

\* lines 303-306 and 323-326
SetHvacModeSetSummerMode(t) ==
    /\ InSetHvacMode(t)
    /\ tasks[t].pc = "setSummerMode"
    /\ Written(setSummerMode(dev, tasks[t].mode = HVAC_OFF),
               "setSummerMode", FALSE)
    /\ Goto(t, "setCircuitSchedules")
    /\ UNCHANGED <<data, poll, ent, setup, chk>>

\* the modes for which line 328 assigns the override schedule
OverrideModes == {HVAC_HEAT, HVAC_HEAT_COOL}

\* faulty variant: the rotation is restored without its starting day
SetHvacModeSetSchedules_NoStartingDay(t) ==
    /\ InSetHvacMode(t)
    /\ tasks[t].pc = "setCircuitSchedules"
    /\ LET c == tasks[t].c
       IN IF tasks[t].mode \in OverrideModes
          THEN Written(setCircuitSchedules(dev, IntOf(c),
                           <<IntOf(ManualModeSchedule(c))>>, None),
                       "setCircuitSchedules", TRUE)
          ELSE Written(setCircuitSchedules(dev, IntOf(c),
                           IntList(AutoModeDailySchedules(c)), None),
                       "setCircuitSchedules", TRUE)
    /\ Finish(t)
    /\ UNCHANGED <<data, poll, ent, setup, chk>>

\* lines 328-348, then the refresh request of line 356
SetHvacModeSetSchedules(t) ==
    /\ InSetHvacMode(t)
    /\ tasks[t].pc = "setCircuitSchedules"
    /\ LET c == tasks[t].c
       IN IF tasks[t].mode \in OverrideModes
          THEN Written(setCircuitSchedules(dev, IntOf(c),
                           <<IntOf(ManualModeSchedule(c))>>, None),
                       "setCircuitSchedules", TRUE)
          ELSE Written(setCircuitSchedules(dev, IntOf(c),
                           IntList(AutoModeDailySchedules(c)),
                           Some(AutoModeStartingDay(c))),
                       "setCircuitSchedules", TRUE)
    /\ Finish(t)
    /\ UNCHANGED <<data, poll, ent, setup, chk>>

SetHvacMode(t) ==
    \/ SetHvacModeStart(t)
    \/ SetHvacModeAssign(t)
    \/ SetHvacModeGetSummerMode(t)
    \/ SetHvacModeGetAssignments(t)
    \/ SetHvacModeSetSummerMode(t)
    \/ SetHvacModeSetSchedules(t)

(* BmrClimateEntity.async_set_temperature (climate.py:397-420) *)

SetTemperatureStart(t) ==
    /\ hist.nTemps < MaxSetTemperature
    /\ \E c \in CircuitIds : \E temperature \in TargetTemps :
          StartTaskWith(t, "set_temperature", c, "", "setSchedule",
                        Some(temperature))

\* [{"time": "00:00", "temperature": temperature}]
ConstantTimetable(temperature) ==
    <<[time |-> "00:00", temperature |-> temperature]>>

\* faulty variant: the mode is never changed
SetTemperatureSetSchedule_KeepsMode(t) ==
    /\ tasks[t].kind = "set_temperature"
    /\ tasks[t].pc = "setSchedule"
    /\ LET c == tasks[t].c
           cached == ent.climate[c].hvac_mode
           d == setSchedule(dev, IntOf(ManualModeSchedule(c)),
                            ConstantTimetable(Val(tasks[t].temperature)))
       IN /\ dev' = d
          /\ LET h1 == IF PollInFlight
                       THEN [hist EXCEPT !.wrote = TRUE]
                       ELSE hist
                 h2 == IF Watching(hist)
                       THEN [h1 EXCEPT
                               !.log.calls = @ \cup {"setSchedule"},
                               !.log.cached = cached]
                       ELSE h1
             IN hist' = LogReturn(h2, RefreshRequests("set_temperature",
                                                      "setSchedule"))
          /\ Finish(t)
    /\ UNCHANGED <<data, poll, ent, setup, chk>>

\* lines 407-417: the override schedule is rewritten; then self.hvac_mode,
\* the mode the last update left on the entity, decides whether
\* async_set_hvac_mode is called
SetTemperatureSetSchedule(t) ==
    /\ tasks[t].kind = "set_temperature"
    /\ tasks[t].pc = "setSchedule"
    /\ LET c == tasks[t].c
           cached == ent.climate[c].hvac_mode
           d == setSchedule(dev, IntOf(ManualModeSchedule(c)),
                            ConstantTimetable(Val(tasks[t].temperature)))
       IN /\ dev' = d
          /\ LET h1 == IF PollInFlight
                       THEN [hist EXCEPT !.wrote = TRUE]
                       ELSE hist
                 h2 == IF Watching(hist)
                       THEN [h1 EXCEPT
                               !.log.calls = @ \cup {"setSchedule"},
                               !.log.cached = cached]
                       ELSE h1
             IN hist' = IF cached \in OverrideModes
                        THEN LogReturn(h2, RefreshRequests("set_temperature",
                                                           "setSchedule"))
                        ELSE h2
          /\ IF cached \notin OverrideModes
             THEN tasks' = [tasks EXCEPT
                    ![t].pc = "setSummerModeAssignments",
                    ![t].mode = IF ent.enable_cooling THEN HVAC_HEAT_COOL
                                ELSE HVAC_HEAT]
             ELSE Finish(t)
    /\ UNCHANGED <<data, poll, ent, setup, chk>>

SetTemperature(t) ==
    \/ SetTemperatureStart(t)
    \/ SetTemperatureSetSchedule(t)

(* BmrClimateEntity.async_set_preset_mode (climate.py:358-395) *)

SetPresetModeStart(t) ==
    \E c \in CircuitIds : \E mode \in {CLIMATE_PRESET_NONE, CLIMATE_PRESET_AWAY} :
        StartTask(t, "set_preset_mode", c, mode, "setLowModeAssignments")

\* lines 362-366 and 379-383
SetPresetModeAssign(t) ==
    /\ tasks[t].kind = "set_preset_mode"
    /\ tasks[t].pc = "setLowModeAssignments"
    /\ Written(setLowModeAssignments(dev, {IntOf(tasks[t].c)},
                                     tasks[t].mode = CLIMATE_PRESET_AWAY),
               "setLowModeAssignments", FALSE)
    /\ Goto(t, IF tasks[t].mode = CLIMATE_PRESET_AWAY THEN "getLowMode"
               ELSE "getLowModeAssignments")
    /\ UNCHANGED <<data, poll, ent, setup, chk>>

\* lines 367-369: if not getLowMode()["enabled"]; otherwise the refresh
\* request and the return
SetPresetModeGetLowMode(t) ==
    /\ tasks[t].kind = "set_preset_mode"
    /\ tasks[t].pc = "getLowMode"
    /\ IF ~dev.low_mode.enabled
       THEN /\ Goto(t, "setLowMode")
            /\ UNCHANGED hist
       ELSE /\ Finish(t)
            /\ hist' = LogReturn(hist, RefreshRequests("set_preset_mode",
                                                       tasks[t].pc))
    /\ UNCHANGED <<dev, data, poll, ent, setup, chk>>

\* lines 384-388: if not any(getLowModeAssignments())
SetPresetModeGetAssignments(t) ==
    /\ tasks[t].kind = "set_preset_mode"
    /\ tasks[t].pc = "getLowModeAssignments"
    /\ IF ~AnyOf(dev.low_mode_assignments)
       THEN /\ Goto(t, "setLowMode")
            /\ UNCHANGED hist
       ELSE /\ Finish(t)
            /\ hist' = LogReturn(hist, RefreshRequests("set_preset_mode",
                                                       tasks[t].pc))
    /\ UNCHANGED <<dev, data, poll, ent, setup, chk>>

\* lines 370-374 and 389-392
SetPresetModeSetLowMode(t) ==
    /\ tasks[t].kind = "set_preset_mode"
    /\ tasks[t].pc = "setLowMode"
    /\ IF tasks[t].mode = CLIMATE_PRESET_AWAY
       THEN Written(setLowMode(dev, TRUE, Some(DEFAULT_AWAY_TEMPERATURE)),
                    "setLowMode", TRUE)
       ELSE Written(setLowMode(dev, FALSE, None), "setLowMode", TRUE)
    /\ Finish(t)
    /\ UNCHANGED <<data, poll, ent, setup, chk>>

SetPresetMode(t) ==
    \/ SetPresetModeStart(t)
    \/ SetPresetModeAssign(t)
    \/ SetPresetModeGetLowMode(t)
    \/ SetPresetModeGetAssignments(t)
    \/ SetPresetModeSetLowMode(t)

\* [int(circuit.id) for circuit in self.coordinator.data.circuits.values()]
SnapshotCircuitIds(stored) ==
    {Val(stored).circuits[c].id : c \in DOMAIN Val(stored).circuits}

\* an assignment call of a switch: the circuits it lists are logged
WrittenIds(d, name, last, ids) ==
    /\ dev' = d
    /\ LET h1 == IF PollInFlight
                 THEN [hist EXCEPT !.wrote = TRUE,
                                   !.seen = @ \cup {FlagsOf(d)}]
                 ELSE hist
           h2 == IF Watching(hist)
                 THEN [h1 EXCEPT !.log.calls = @ \cup {name},
                                 !.log.ids = ids]
                 ELSE h1
       IN hist' = IF last
                  THEN LogReturn(h2, RefreshRequests(hist.log.kind, name))
                  ELSE h2

(* BmrControllerPowerSwitch.async_turn_on / async_turn_off                 *)
(* (switch.py:174-219); mode "on" or "off" is the switch's new state       *)

PowerStart(t) ==
    \E mode \in {"on", "off"} : StartTask(t, "power", "", mode, "setSummerMode")

\* lines 183-186 and 206-209
PowerSetSummerMode(t) ==
    /\ tasks[t].kind = "power"
    /\ tasks[t].pc = "setSummerMode"
    /\ Written(setSummerMode(dev, tasks[t].mode = "off"), "setSummerMode", FALSE)
    /\ Goto(t, "setSummerModeAssignments")
    /\ UNCHANGED <<data, poll, ent, setup, chk>>

\* lines 189-196 and 212-219
PowerSetAssignments(t) ==
    /\ tasks[t].kind = "power"
    /\ tasks[t].pc = "setSummerModeAssignments"
    /\ WrittenIds(setSummerModeAssignments(dev, SnapshotCircuitIds(data),
                                           tasks[t].mode = "off"),
                  "setSummerModeAssignments", TRUE, SnapshotCircuitIds(data))
    /\ Finish(t)
    /\ UNCHANGED <<data, poll, ent, setup, chk>>

Power(t) ==
    \/ PowerStart(t)
    \/ PowerSetSummerMode(t)
    \/ PowerSetAssignments(t)

(* BmrControllerAwayModeSwitch.async_turn_on / async_turn_off              *)
(* (switch.py:99-131); mode "on" or "off" is the switch's new state        *)

AwayStart(t) ==
    \E mode \in {"on", "off"} :
        StartTask(t, "away", "", mode, "setLowModeAssignments")

\* lines 104-108 and 121-125
AwaySetAssignments(t) ==
    /\ tasks[t].kind = "away"
    /\ tasks[t].pc = "setLowModeAssignments"
    /\ WrittenIds(setLowModeAssignments(dev, SnapshotCircuitIds(data),
                                        tasks[t].mode = "on"),
                  "setLowModeAssignments", FALSE, SnapshotCircuitIds(data))
    /\ Goto(t, "setLowMode")
    /\ UNCHANGED <<data, poll, ent, setup, chk>>

\* lines 111 and 128: setLowMode(True) or setLowMode(False), whatever the
\* controller holds
AwaySetLowMode(t) ==
    /\ tasks[t].kind = "away"
    /\ tasks[t].pc = "setLowMode"
    /\ Written(setLowMode(dev, tasks[t].mode = "on", None), "setLowMode", TRUE)
    /\ Finish(t)
    /\ UNCHANGED <<data, poll, ent, setup, chk>>

Away(t) ==
    \/ AwayStart(t)
    \/ AwaySetAssignments(t)
    \/ AwaySetLowMode(t)

(* A pybmr call of an action raises.  No action has a try block around its  *)
(* awaited calls, async_set_temperature has none around its await of        *)
(* async_set_hvac_mode: the exception leaves the action at the call.        *)

\* faulty variant: the exception is caught and the action ends as usual
TaskRaise_Swallowed(t) ==
    /\ tasks[t].pc # "idle"
    /\ Finish(t)
    /\ hist' = LogReturn(IF Watching(hist)
                         THEN [hist EXCEPT !.log.raised = tasks[t].pc]
                         ELSE hist, 1)
    /\ UNCHANGED <<dev, data, poll, ent, setup, chk>>

\* the call awaited at the task's position raises: the controller is left
\* as the calls before it have made it, and the action is over
TaskRaise(t) ==
    /\ tasks[t].pc # "idle"
    /\ tasks' = [tasks EXCEPT ![t] = TaskIdle]
    /\ hist' = IF Watching(hist)
               THEN [hist EXCEPT !.log.raised = tasks[t].pc]
               ELSE hist
    /\ UNCHANGED <<dev, data, poll, ent, setup, chk>>

---------------------------------------------------------------------------
(* Config flow and platform setup                                          *)

Entry(e) == Val(ent.registry.entries[e])

ConfiguredUniqueIds ==
    {Val(ent.registry.entries[e]).unique_id :
        e \in {x \in ConfigEntryIds : ~IsNone(ent.registry.entries[x])}}

\* config_flow.py:243-259: the user adds a controller; the flow aborts when
\* the controller's unique id is already configured
ConfigFlowUser(e) ==
    /\ IsNone(ent.registry.entries[e])
    /\ \E u \in ControllerUniqueIds \ ConfiguredUniqueIds :
          ent' = [ent EXCEPT !.registry.entries[e] =
                    Some([unique_id |-> u, circuits |-> {}, platforms |-> {}])]
    /\ UNCHANGED <<dev, data, poll, tasks, hist, setup, chk>>

\* config_flow.py:340-364: the user adds a circuit to a controller whose
\* platforms are not yet set up
AddCircuit(e) ==
    /\ ~IsNone(ent.registry.entries[e])
    /\ Entry(e).platforms = {}
    /\ \E c \in CircuitIds \ Entry(e).circuits :
          ent' = [ent EXCEPT !.registry.entries[e] =
                    Some([Entry(e) EXCEPT !.circuits = @ \cup {c}])]
    /\ UNCHANGED <<dev, data, poll, tasks, hist, setup, chk>>

\* a platform's async_setup_entry has created these entities
PlatformSetup(e, platform, created) ==
    /\ ~IsNone(ent.registry.entries[e])
    /\ platform \notin Entry(e).platforms
    /\ ent' = [ent EXCEPT
                 !.registry.entries[e] =
                     Some([Entry(e) EXCEPT !.platforms = @ \cup {platform}]),
                 !.registry.entities = @ \cup created]
    /\ UNCHANGED <<dev, data, poll, tasks, hist, setup, chk>>

\* binary_sensor.py:20-37
BinarySensorSetupEntry(e) ==
    PlatformSetup(e, "binary_sensor",
        IF IsNone(ent.registry.entries[e]) THEN {}
        ELSE {Entity(e, "binary_sensor", HDOUniqueId(Entry(e).unique_id))})

\* climate.py:43-85
ClimateSetupEntry(e) ==
    PlatformSetup(e, "climate",
        IF IsNone(ent.registry.entries[e]) THEN {}
        ELSE {Entity(e, "climate",
                     ClimateUniqueId(Entry(e).unique_id, CircuitUniqueId(c))) :
                 c \in Entry(e).circuits})

\* sensor.py:27-56
SensorSetupEntry(e) ==
    PlatformSetup(e, "sensor",
        IF IsNone(ent.registry.entries[e]) THEN {}
        ELSE {Entity(e, "sensor",
                     TemperatureUniqueId(Entry(e).unique_id,
                                         CircuitUniqueId(c))) :
                 c \in Entry(e).circuits}
             \cup
             {Entity(e, "sensor",
                     TargetTemperatureUniqueId(Entry(e).unique_id,
                                               CircuitUniqueId(c))) :
                 c \in Entry(e).circuits})

\* switch.py:20-44
SwitchSetupEntry(e) ==
    PlatformSetup(e, "switch",
        IF IsNone(ent.registry.entries[e]) THEN {}
        ELSE {Entity(e, "switch", AwayModeSwitchUniqueId(Entry(e).unique_id)),
              Entity(e, "switch", PowerSwitchUniqueId(Entry(e).unique_id))})

---------------------------------------------------------------------------
(* Specifications *)

\* prevData: the snapshot stored when the poll in flight (or the failed poll)
\*   started.  seen: the flag states the controller has held since the poll
\*   in flight started.  wrote: an action's call changed the controller
\*   during the last poll.  consistent: the flags of the snapshot the last
\*   poll returned were one of the states in seen.  nActs: actions started.
\*   nFaults: changes of a sensor between reporting and not reporting.
\*   nTemps: set_temperature actions started.
\*   watch: "off", or "actions" when the actions are logged, or "polls" when
\*   the polls after the logged action are counted as well, or "snapshots"
\*   when the replaced snapshots are remembered.  log: see LogNone.
\*   last: see LastNone.
HistInit ==
    [prevData |-> None, seen |-> {}, wrote |-> FALSE, consistent |-> FALSE,
     nActs |-> 0, nTemps |-> 0, nFaults |-> 0, watch |-> "off",
     log |-> LogNone, last |-> LastNone]

\* Spec: setup, polls with failing calls, moving sensors; no write action
Init ==
    /\ dev = DevBase
    /\ data = None
    /\ poll = PollIdle
    /\ \E b \in BOOLEAN : ent = EntInit(b)
    /\ tasks = [t \in TaskIds |-> TaskIdle]
    /\ hist = HistInit
    /\ setup = SetupInit
    /\ chk = CheckIdle

PollStep ==
    \/ PollStart
    \/ PollGetUniqueId
    \/ PollGetHDO
    \/ PollGetLowMode
    \/ PollGetLowModeAssignments
    \/ PollGetSummerMode
    \/ PollGetSummerModeAssignments
    \/ PollGetCircuit
    \/ PollGetCircuitSchedules

Next ==
    \/ SetupProbeOk
    \/ SetupProbeRaise
    \/ SetupRetry
    \/ PollStep
    \/ PollRaise
    \/ SensorChange

Spec == Init /\ [][Next]_vars

\* SpecCheck: the sanity check on its own, on every drawn input
InitCheck ==
    /\ dev = DevBase
    /\ data = None
    /\ poll = PollIdle
    /\ ent = EntInit(FALSE)
    /\ tasks = [t \in TaskIds |-> TaskIdle]
    /\ hist = HistInit
    /\ setup = SetupInit
    /\ CheckInit

NextCheck == CheckApply

SpecCheck == InitCheck /\ [][NextCheck]_vars

\* SpecSummer: polls interleaved, call by call, with the climate entities'
\* set_hvac_mode and the power switch, one action in flight at a time.  The
\* controller starts with summer mode on exactly when a circuit, configured
\* or not, is assigned to it.
SummerInitDevs ==
    {[DevBase EXCEPT !.summer_mode = AnyOf(a), !.summer_mode_assignments = a] :
        a \in {AllFalse, [AllFalse EXCEPT ![0] = TRUE],
               [AllFalse EXCEPT ![2] = TRUE]}}

InitSummer ==
    /\ dev \in SummerInitDevs
    /\ data = None
    /\ poll = PollIdle
    /\ \E b \in BOOLEAN : ent = EntInit(b)
    /\ tasks = [t \in TaskIds |-> TaskIdle]
    /\ hist = HistInit
    /\ setup = [SetupInit EXCEPT !.pc = "ok"]
    /\ chk = CheckIdle

NextSummer ==
    \/ PollStep
    \/ SetHvacMode(1)
    \/ Power(1)

SpecSummer == InitSummer /\ [][NextSummer]_vars

\* the controller with circuit c left on its override schedule, as
\* set_hvac_mode(HEAT) leaves it
OnOverride(d, c) ==
    setCircuitSchedules(d, IntOf(c), <<IntOf(ManualModeSchedule(c))>>, None)

\* SpecMode: the climate entities' set_hvac_mode after the first refresh, one
\* action in flight at a time, the actions logged.  The controller starts
\* with summer mode on or off, with no circuit or an unconfigured circuit
\* assigned to it, and with circuit "0" on its rotation or on its override.
ModeInitDevs ==
    {[d EXCEPT !.summer_mode = b, !.summer_mode_assignments = a] :
        b \in BOOLEAN,
        a \in {AllFalse, [AllFalse EXCEPT ![2] = TRUE]},
        d \in {DevBase, OnOverride(DevBase, "0")}}

HistWatch == [HistInit EXCEPT !.watch = "actions"]

HistWatchPolls == [HistInit EXCEPT !.watch = "polls"]

\* The state in which the first refresh (__init__.py:92) leaves the program
\* when the controller is d and no call fails: with no stored snapshot every
\* reading passes the sanity check, and the platforms' entities are created
\* after it (__init__.py:99).
FirstCircuits(d) ==
    [c \in CircuitIds |->
        CircuitStateOf(getCircuit(d, IntOf(c)), getCircuitSchedules(d, IntOf(c)))]

FirstPoll(d) ==
    [PollIdle EXCEPT
       !.pc = "done",
       !.idx = Len(CircuitOrder),
       !.unique_id = Some(d.unique_id),
       !.hdo = Some(d.hdo),
       !.low_mode = Some(d.low_mode),
       !.low_mode_assignments = Some(d.low_mode_assignments),
       !.summer_mode = Some(d.summer_mode),
       !.summer_mode_assignments = Some(d.summer_mode_assignments),
       !.circuits = FirstCircuits(d),
       !.fetched = FirstCircuits(d),
       !.accepted = [c \in CircuitIds |-> TRUE]]

AfterFirstRefresh(d, enable_cooling, h) ==
    /\ dev = d
    /\ data = Some(BmrControllerState(FirstPoll(d), FirstCircuits(d)))
    /\ poll = FirstPoll(d)
    /\ ent = [EntInit(enable_cooling) EXCEPT !.subscribed = TRUE]
    /\ tasks = [t \in TaskIds |-> TaskIdle]
    /\ hist = [h EXCEPT !.consistent = TRUE]
    /\ setup = [SetupInit EXCEPT !.pc = "ok"]
    /\ chk = CheckIdle

InitMode ==
    \E d \in ModeInitDevs, b \in BOOLEAN : AfterFirstRefresh(d, b, HistWatch)

\* set_hvac_mode reads neither the stored snapshot nor the entity's
\* attributes: the polls are left to the other specifications
NextMode == SetHvacMode(1)

SpecMode == InitMode /\ [][NextMode]_vars

\* SpecTemperature: after the first refresh, polls interleaved call by call
\* with the climate entities' set_temperature, one action in flight at a
\* time, the actions logged and the polls after them counted, while the
\* circuits' sensors fail and recover.
InitTemperature ==
    \E b \in BOOLEAN : AfterFirstRefresh(DevBase, b, HistWatchPolls)

\* the calls of async_set_hvac_mode with HEAT or HEAT_COOL, as
\* async_set_temperature awaits it (climate.py:413-417)
SetHvacModeToHeat(t) ==
    \/ SetHvacModeAssign(t)
    \/ SetHvacModeGetAssignments(t)
    \/ SetHvacModeSetSummerMode(t)
    \/ SetHvacModeSetSchedules(t)

NextTemperature ==
    \/ PollStep
    \/ SetTemperature(1)
    \/ SetHvacModeToHeat(1)
    \/ SensorFault

SpecTemperature == InitTemperature /\ [][NextTemperature]_vars

\* SpecCached: after the first refresh, polls interleaved call by call with
\* the climate entities' set_hvac_mode and set_temperature, one action in
\* flight at a time, the actions logged.  Cooling is not enabled; circuit "0"
\* starts on its override schedule, as a set_hvac_mode(HEAT) of an earlier
\* run has left it.
InitCached == AfterFirstRefresh(OnOverride(DevBase, "0"), FALSE, HistWatch)

NextCached ==
    \/ PollStep
    \/ SetHvacMode(1)
    \/ SetTemperature(1)

SpecCached == InitCached /\ [][NextCached]_vars

\* SpecPower: after the first refresh, polls interleaved call by call with
\* the power switch, one action in flight at a time, the actions logged and
\* the polls after them counted, while the circuits' sensors fail and
\* recover.  Cooling is not enabled.
InitPower == AfterFirstRefresh(DevBase, FALSE, HistWatchPolls)

NextPower ==
    \/ PollStep
    \/ Power(1)
    \/ SensorFault

SpecPower == InitPower /\ [][NextPower]_vars

\* the controller with low mode on or off, at a temperature set earlier, and
\* with no circuit or an unconfigured circuit assigned to it
LowInitDevs ==
    {[DevBase EXCEPT !.low_mode = [enabled |-> b, temperature |-> Some(15)],
                     !.low_mode_assignments = a] :
        b \in BOOLEAN,
        a \in {AllFalse, [AllFalse EXCEPT ![2] = TRUE]}}

\* SpecAway: as SpecPower, with the away switch in place of the power
\* switch; low mode starts enabled exactly when a circuit is assigned to it
InitAway ==
    \E d \in {x \in LowInitDevs :
                 x.low_mode.enabled = AnyOf(x.low_mode_assignments)} :
        AfterFirstRefresh(d, FALSE, HistWatchPolls)

NextAway ==
    \/ PollStep
    \/ Away(1)
    \/ SensorFault

SpecAway == InitAway /\ [][NextAway]_vars

\* SpecPreset: the climate entities' set_preset_mode after the first
\* refresh, one action in flight at a time, the actions logged
InitPreset ==
    \E d \in LowInitDevs : AfterFirstRefresh(d, FALSE, HistWatch)

\* set_preset_mode reads neither the stored snapshot nor the entity's
\* attributes: the polls are left to the other specifications
NextPreset == SetPresetMode(1)

SpecPreset == InitPreset /\ [][NextPreset]_vars

\* SpecFail: every entity action after the first refresh, one action in
\* flight at a time, the actions logged, each awaited pybmr call returning
\* or raising
InitFail ==
    \E b \in BOOLEAN : AfterFirstRefresh(DevBase, b, HistWatch)

NextFail ==
    \/ SetHvacMode(1)
    \/ SetPresetMode(1)
    \/ SetTemperature(1)
    \/ Power(1)
    \/ Away(1)
    \/ TaskRaise(1)

SpecFail == InitFail /\ [][NextFail]_vars

\* SpecOmit: the polls from the first one on, with calls that time out and
\* moving sensors, the replaced snapshots remembered; the setup probe has
\* passed and cooling is not enabled
InitOmit ==
    /\ dev = DevBase
    /\ data = None
    /\ poll = PollIdle
    /\ ent = EntInit(FALSE)
    /\ tasks = [t \in TaskIds |-> TaskIdle]
    /\ hist = [HistInit EXCEPT !.watch = "snapshots"]
    /\ setup = [SetupInit EXCEPT !.pc = "ok"]
    /\ chk = CheckIdle

NextOmit ==
    \/ PollStep
    \/ PollTimeout
    \/ SensorChange

SpecOmit == InitOmit /\ [][NextOmit]_vars

\* SpecOff: after the first refresh, polls interleaved call by call with the
\* climate entities' set_hvac_mode and set_temperature and with the power
\* switch, one action in flight at a time, the actions logged and the polls
\* after them counted, while the circuits' sensors fail and recover.  The
\* controller starts with summer mode off and no circuit assigned to it;
\* cooling is not enabled.
InitOff == AfterFirstRefresh(DevBase, FALSE, HistWatchPolls)

NextOff ==
    \/ PollStep
    \/ SetHvacMode(1)
    \/ SetTemperature(1)
    \/ Power(1)
    \/ SensorFault

SpecOff == InitOff /\ [][NextOff]_vars

\* the controller with any circuits assigned to summer mode, and summer
\* mode on exactly when one is
RaceInitDevs ==
    {[DevBase EXCEPT !.summer_mode = AnyOf(a), !.summer_mode_assignments = a] :
        a \in [DeviceCircuits -> BOOLEAN]}

\* the calls of async_set_hvac_mode with OFF (climate.py:293-306, 343-348)
SetHvacModeToOff(t) ==
    \/ SetHvacModeAssign(t)
    \/ SetHvacModeGetSummerMode(t)
    \/ SetHvacModeSetSummerMode(t)
    \/ SetHvacModeSetSchedules(t)

\* SpecRace: after the first refresh the host has called set_hvac_mode(OFF)
\* on one climate entity and set_hvac_mode with another mode on the other,
\* and neither has made its first call: the two actions interleave call by
\* call, with each other and with the polls.
InitRace ==
    \E d \in RaceInitDevs, a \in CircuitIds, m \in {HVAC_AUTO, HVAC_HEAT} :
        /\ dev = d
        /\ data = Some(BmrControllerState(FirstPoll(d), FirstCircuits(d)))
        /\ poll = FirstPoll(d)
        /\ ent = [EntInit(FALSE) EXCEPT !.subscribed = TRUE]
        /\ tasks = [t \in TaskIds |->
               [pc |-> "setSummerModeAssignments", kind |-> "set_hvac_mode",
                c |-> IF t = 1 THEN a ELSE CHOOSE b \in CircuitIds : b # a,
                mode |-> IF t = 1 THEN HVAC_OFF ELSE m,
                temperature |-> None]]
        /\ hist = [HistInit EXCEPT !.consistent = TRUE, !.nActs = Cardinality(TaskIds)]
        /\ setup = [SetupInit EXCEPT !.pc = "ok"]
        /\ chk = CheckIdle

NextRace ==
    \/ PollStep
    \/ SetHvacModeToOff(1)
    \/ SetHvacModeToHeat(2)

SpecRace == InitRace /\ [][NextRace]_vars

\* the controller with both configured circuits assigned to low mode and
\* low mode on at the away temperature, as set_preset_mode(away) on each
\* climate entity leaves it
AwayOnAll ==
    [DevBase EXCEPT
       !.low_mode = [enabled |-> TRUE,
                     temperature |-> Some(DEFAULT_AWAY_TEMPERATURE)],
       !.low_mode_assignments =
           [i \in DeviceCircuits |-> i \in {IntOf(c) : c \in CircuitIds}]]

\* SpecPresetPolls: after the first refresh, polls interleaved call by call
\* with the climate entities' set_preset_mode, one action in flight at a
\* time, the actions logged, while the circuits' sensors fail and recover.
\* Cooling is not enabled.
InitPresetPolls == AfterFirstRefresh(AwayOnAll, FALSE, HistWatch)

NextPresetPolls ==
    \/ PollStep
    \/ SetPresetMode(1)
    \/ SensorFault

SpecPresetPolls == InitPresetPolls /\ [][NextPresetPolls]_vars

\* SpecIds: the user adds two controllers and their circuits, and the four
\* platforms of each create its entities, in any order; the controllers'
\* polls are left to the other specifications.
InitIds ==
    /\ dev = DevBase
    /\ data = None
    /\ poll = PollIdle
    /\ ent = EntInit(FALSE)
    /\ tasks = [t \in TaskIds |-> TaskIdle]
    /\ hist = HistInit
    /\ setup = SetupInit
    /\ chk = CheckIdle

NextIds ==
    \E e \in ConfigEntryIds :
        \/ ConfigFlowUser(e)
        \/ AddCircuit(e)
        \/ BinarySensorSetupEntry(e)
        \/ ClimateSetupEntry(e)
        \/ SensorSetupEntry(e)
        \/ SwitchSetupEntry(e)

SpecIds == InitIds /\ [][NextIds]_vars

\* the controller with circuit "0" assigned to summer mode or not, and on
\* its rotation or on its override schedule
ActionInitDevs ==
    {[d EXCEPT !.summer_mode = b, !.summer_mode_assignments[0] = b] :
        b \in BOOLEAN, d \in {DevBase, OnOverride(DevBase, "0")}}

\* SpecFrame: after the first refresh, polls interleaved call by call with
\* the climate entities' three actions, one action in flight at a time and
\* FrameActions of them in a run, the actions logged and the polls after
\* them counted.  Cooling is not enabled.  The controller starts with
\* nothing assigned, or with summer mode and low mode on and the circuits
\* of Assigned(ids) summer-assigned, low-assigned and, when configured, on
\* their override schedules: every circuit, or circuit "1" alone.
FrameActions == 1

Assigned(ids) ==
    LET d0 == IF 0 \in ids THEN OnOverride(DevBase, "0") ELSE DevBase
        d1 == IF 1 \in ids THEN OnOverride(d0, "1") ELSE d0
        a == [i \in DeviceCircuits |-> i \in ids]
    IN [d1 EXCEPT !.summer_mode = TRUE,
                  !.summer_mode_assignments = a,
                  !.low_mode = [enabled |-> TRUE,
                                temperature |->
                                    Some(DEFAULT_AWAY_TEMPERATURE)],
                  !.low_mode_assignments = a]

FrameInitDevs == {DevBase, Assigned(DeviceCircuits), Assigned({1})}

InitFrame ==
    \E d \in FrameInitDevs : AfterFirstRefresh(d, FALSE, HistWatchPolls)

ClimateAction(t) ==
    /\ SetHvacMode(t) \/ SetPresetMode(t) \/ SetTemperature(t)
    /\ hist'.nActs <= FrameActions

NextFrame == PollStep \/ ClimateAction(1)

SpecFrame == InitFrame /\ [][NextFrame]_vars

\* SpecAction: after the first refresh, polls while the controller starts
\* and stops heating and cooling the circuits
InitAction ==
    \E d \in ActionInitDevs, b \in BOOLEAN : AfterFirstRefresh(d, b, HistInit)

NextAction ==
    \/ PollStep
    \/ ActuatorChange

SpecAction == InitAction /\ [][NextAction]_vars

---------------------------------------------------------------------------
(* Properties *)

AbsDiff(a, b) == IF a >= b THEN a - b ELSE b - a

\* the case of C1: a previous state, equal ids, both temperatures defined
CheckDeltaCase ==
    /\ chk.pc = "done"
    /\ ~IsNone(chk.prev)
    /\ chk.new.id = Val(chk.prev).id
    /\ ~IsNone(chk.new.temperature)
    /\ ~IsNone(Val(chk.prev).temperature)

\* C1: with a previous state, equal circuit ids and both temperatures
\* defined, the sanity check returns false when the absolute difference of
\* the two temperatures is >= 5.0, for a rise and for a drop alike, and true
\* when it is < 5.0.
C1_DeltaRejectedBothWays ==
    CheckDeltaCase =>
        ( chk.result
            = ( AbsDiff(Val(chk.new.temperature), Val(Val(chk.prev).temperature))
                  < MAX_TEMPERATURE_DELTA ) )

\* C2: after a successful poll, a configured circuit whose reading failed the
\* sanity check is absent from the stored snapshot's circuits, and every
\* circuit whose reading passed is present with the values that poll fetched.
C2_RejectedCircuitOmittedOthersKept ==
    poll.pc = "done" =>
        \A c \in CircuitIds :
            /\ c \in DOMAIN poll.accepted
            /\ ~poll.accepted[c] => c \notin DOMAIN Val(data).circuits
            /\ poll.accepted[c] =>
                  /\ c \in DOMAIN Val(data).circuits
                  /\ Val(data).circuits[c] = poll.fetched[c]

\* C2 witness: a poll returned with one circuit rejected and the other kept
C2_Witness ==
    /\ poll.pc = "done"
    /\ ~poll.accepted["0"]
    /\ poll.accepted["1"]
    /\ "1" \in DOMAIN Val(data).circuits

\* C3: when the snapshot handed to the entities omits a circuit, every
\* entity processes the notification without raising; the omitted circuit's
\* climate and sensor entities keep their state and all others take the new
\* snapshot's values.
C3_OmittedCircuitNoError ==
    (ent.delivered /\ DOMAIN Val(data).circuits # CircuitIds) =>
        /\ ent.raised = {}
        /\ \A c \in DOMAIN Val(data).circuits :
              ent.temperature[c].native_value = Val(data).circuits[c].temperature

\* the authentication-failure message raised by a call (not a timeout)
IsAuthFailure(exc) ==
    /\ ~IsNone(exc)
    /\ Val(exc).type # "TimeoutError"
    /\ Len(Val(exc).args) > 0
    /\ Val(exc).args[1] = AUTH_FAILED_MSG

\* within 15 minutes of local midnight
NearMidnight(now) ==
    \/ now < WINDOW_MINUTES
    \/ now >= MinutesPerDay - WINDOW_MINUTES

\* the failures the host retries by itself
TransientOutcomes == {"ConfigEntryNotReady", "UpdateFailed"}

\* C4: an authentication failure of a call of the poll, or of the setup
\* probe, at a local time within the window around midnight ends as a
\* transient, retryable failure: neither auth-failed nor the generic error.
C4_AuthFailureNearMidnightTransient ==
    /\ (poll.pc = "failed" /\ IsAuthFailure(poll.exc) /\ NearMidnight(poll.now))
          => poll.raised \in TransientOutcomes
    /\ (setup.pc = "failed" /\ IsAuthFailure(setup.exc) /\ NearMidnight(setup.now))
          => setup.raised \in TransientOutcomes

\* C5: an authentication failure of a call of the poll, or of the setup
\* probe, at a local time not near midnight ends as ConfigEntryAuthFailed
\* and as no other error.
C5_AuthFailureAwayFromMidnight ==
    /\ (poll.pc = "failed" /\ IsAuthFailure(poll.exc) /\ ~NearMidnight(poll.now))
          => poll.raised = "ConfigEntryAuthFailed"
    /\ (setup.pc = "failed" /\ IsAuthFailure(setup.exc) /\ ~NearMidnight(setup.now))
          => setup.raised = "ConfigEntryAuthFailed"

IsTimeout(exc) == ~IsNone(exc) /\ Val(exc).type = "TimeoutError"

\* C6: a timeout raised by any read of the poll, at whichever position, and
\* by the setup probe, ends as ConfigEntryNotReady.
C6_TimeoutIsNotReady ==
    /\ (poll.pc = "failed" /\ IsTimeout(poll.exc))
          => poll.raised = "ConfigEntryNotReady"
    /\ (setup.pc = "failed" /\ IsTimeout(setup.exc))
          => setup.raised = "ConfigEntryNotReady"

\* C6 witness: a timeout with no arguments at the last read of a circuit,
\* after a snapshot has been stored
C6_Witness ==
    /\ poll.pc = "failed"
    /\ IsTimeout(poll.exc)
    /\ Val(poll.exc).args = <<>>
    /\ poll.failed_at = "getCircuitSchedules"
    /\ ~IsNone(data)

\* C7: every exception of a poll that is neither a timeout nor an
\* authentication failure, one without arguments included, is surfaced as
\* ConfigEntryError.
C7_OtherExceptionsGeneric ==
    (poll.pc = "failed" /\ ~IsTimeout(poll.exc) /\ ~IsAuthFailure(poll.exc))
        => poll.raised = "ConfigEntryError"

\* C8: after a successful poll the stored snapshot is the one the poll
\* built; after a poll that failed, at any read, the stored snapshot is the
\* one stored when that poll started.
C8_StoredSnapshotReplacedOnlyOnSuccess ==
    /\ poll.pc = "done" =>
          data = Some(BmrControllerState(poll, poll.circuits))
    /\ poll.pc = "failed" => data = hist.prevData

\* C8 witness: a poll failed in the middle of its reads while a snapshot
\* with a circuit omitted was stored
C8_Witness ==
    /\ poll.pc = "failed"
    /\ poll.failed_at = "getCircuit"
    /\ ~IsNone(data)
    /\ DOMAIN Val(data).circuits = {"1"}
    /\ data = hist.prevData

\* C9: every stored snapshot has its fields from one poll, and its global
\* flags and assignment lists together are a state the controller held at
\* some instant of that poll, also when write actions interleave with it.
C9_SnapshotIsAControllerState ==
    poll.pc = "done" => hist.consistent

\* C9, amended: while a poll is in flight the stored snapshot is the one
\* stored before it; the snapshot a poll returns is built from that poll's
\* reads, and its flags and lists are a state the controller held during the
\* poll when no write call changed the controller during it.
C9_SnapshotConsistentWithoutWrites ==
    /\ PollInFlight => data = hist.prevData
    /\ poll.pc = "done" =>
          data = Some(BmrControllerState(poll, poll.circuits))
    /\ (poll.pc = "done" /\ ~hist.wrote) => hist.consistent

\* C9 witness: a poll without interleaved writes returned the state an
\* action had left on the controller
C9_Witness ==
    /\ poll.pc = "done"
    /\ ~hist.wrote
    /\ hist.consistent
    /\ hist.nActs > 0
    /\ Val(data).summer_mode
    /\ Val(data).summer_mode_assignments[1]

\* the mode C10 gives for circuit c of snapshot s
ModeBySnapshot(s, c, enable_cooling) ==
    CASE s.summer_mode_assignments[IntOf(c)] -> HVAC_OFF
      [] /\ ~s.summer_mode_assignments[IntOf(c)]
         /\ s.circuits[c].schedules.day_schedules
               = <<IntOf(ManualModeSchedule(c))>> ->
            IF enable_cooling THEN HVAC_HEAT_COOL ELSE HVAC_HEAT
      [] OTHER -> HVAC_AUTO

\* C10: for every snapshot containing the circuit, the climate mode is OFF
\* if the circuit's summer-mode assignment flag is set; otherwise HEAT
\* (HEAT_COOL with cooling enabled) if its day schedules are the one-element
\* list of the override schedule; otherwise AUTO.
C10_ModeIsFunctionOfSnapshot ==
    ent.delivered =>
        \A c \in DOMAIN Val(data).circuits :
            /\ ent.climate[c].hvac_mode
                  = ModeBySnapshot(Val(data), c, ent.enable_cooling)
            /\ ent.climate[c].hvac_mode
                  \in {HVAC_OFF, HVAC_HEAT, HVAC_HEAT_COOL, HVAC_AUTO}

\* C10 witness: a circuit summer-assigned and on the override schedule reads
\* OFF while the other circuit reads AUTO
C10_Witness ==
    /\ ent.delivered
    /\ Val(data).summer_mode_assignments[0]
    /\ Val(data).circuits["0"].schedules.day_schedules = <<30>>
    /\ ent.climate["0"].hvac_mode = HVAC_OFF
    /\ ~Val(data).summer_mode_assignments[1]
    /\ ent.climate["1"].hvac_mode = HVAC_AUTO

\* the logged action has returned and was of this kind
Completed(kind) == hist.log.done /\ hist.log.kind = kind

\* the controller when the logged action started
LogPre == Val(hist.log.pre)

\* C11: when set_hvac_mode has run to completion with no other action
\* interleaved: for OFF the circuit is summer-assigned and summer mode is on,
\* and setSummerMode was called exactly when summer mode was off before; for
\* any other mode the circuit is unassigned, the other circuits' assignments
\* are as before, and summer mode was switched off exactly when no circuit at
\* all remains assigned, and is as before otherwise.
C11_SetHvacModeSummerContract ==
    Completed("set_hvac_mode") =>
        LET c == IntOf(hist.log.c)
            others == DeviceCircuits \ {c}
        IN /\ \A i \in others :
                 dev.summer_mode_assignments[i]
                     = LogPre.summer_mode_assignments[i]
           /\ IF hist.log.mode = HVAC_OFF
              THEN /\ dev.summer_mode_assignments[c]
                   /\ dev.summer_mode
                   /\ ("setSummerMode" \in hist.log.calls) = ~LogPre.summer_mode
              ELSE /\ ~dev.summer_mode_assignments[c]
                   /\ IF ~AnyOf(dev.summer_mode_assignments)
                      THEN /\ ~dev.summer_mode
                           /\ "setSummerMode" \in hist.log.calls
                      ELSE /\ dev.summer_mode = LogPre.summer_mode
                           /\ "setSummerMode" \notin hist.log.calls

\* C11 witness: set_hvac_mode(AUTO) on the only summer-assigned circuit has
\* switched summer mode off, after an OFF that had switched it on
C11_Witness ==
    /\ Completed("set_hvac_mode")
    /\ hist.log.mode = HVAC_AUTO
    /\ hist.log.c = "0"
    /\ LogPre.summer_mode
    /\ LogPre.summer_mode_assignments[0]
    /\ ~dev.summer_mode
    /\ ~IsNone(hist.log.before)
    /\ Val(hist.log.before).mode = HVAC_OFF
    /\ "setSummerMode" \in Val(hist.log.before).calls

\* the rotation configured for circuit c, as set_hvac_mode writes it
ConfiguredRotation(c) ==
    [day_schedules |-> IntList(AutoModeDailySchedules(c)),
     starting_day |-> Some(AutoModeStartingDay(c))]

\* set_hvac_mode(AUTO) has completed on the circuit on which
\* set_hvac_mode(OFF) had completed just before it
OffThenAuto ==
    /\ Completed("set_hvac_mode")
    /\ hist.log.mode = HVAC_AUTO
    /\ ~IsNone(hist.log.before)
    /\ Val(hist.log.before).kind = "set_hvac_mode"
    /\ Val(hist.log.before).mode = HVAC_OFF
    /\ Val(hist.log.before).c = hist.log.c

\* C12: after set_hvac_mode(OFF) followed by set_hvac_mode(AUTO) on a circuit
\* that was on its configured rotation, or on its override schedule (HEAT),
\* the circuit's schedule assignment on the controller is the configured
\* rotation with the configured starting day.
C12_OffThenAutoRestoresRotation ==
    OffThenAuto =>
        dev.circuit_schedules[IntOf(hist.log.c)] = ConfiguredRotation(hist.log.c)

\* C12 witness: the round trip on circuit "0", which was on its override
\* schedule before the OFF, and whose starting day is not the first day
C12_Witness ==
    /\ OffThenAuto
    /\ hist.log.c = "0"
    /\ Val(Val(hist.log.before).pre).circuit_schedules[0].day_schedules = <<30>>
    /\ dev.circuit_schedules[0] = [day_schedules |-> <<1, 2>>,
                                   starting_day |-> Some(2)]

\* C15: set_hvac_mode to HEAT, COOL or HEAT_COOL leaves the circuit on its
\* override schedule: COOL like HEAT and HEAT_COOL.
C15_CoolAssignsOverride ==
    ( /\ Completed("set_hvac_mode")
      /\ hist.log.mode \in {HVAC_HEAT, HVAC_COOL, HVAC_HEAT_COOL} ) =>
        dev.circuit_schedules[IntOf(hist.log.c)].day_schedules
            = <<IntOf(ManualModeSchedule(hist.log.c))>>

\* the mode a circuit on its override schedule reads as
HeatMode == IF ent.enable_cooling THEN HVAC_HEAT_COOL ELSE HVAC_HEAT

\* set_temperature has completed on an entity whose mode was AUTO
SetTemperatureInAuto ==
    /\ Completed("set_temperature")
    /\ hist.log.cached = HVAC_AUTO

\* the override schedule of the logged circuit is the constant T and the
\* circuit is assigned to it
OverrideWritten ==
    LET c == hist.log.c
    IN /\ dev.schedule[IntOf(ManualModeSchedule(c))]
              = ConstantTimetable(Val(hist.log.temperature))
       /\ dev.circuit_schedules[IntOf(c)].day_schedules
              = <<IntOf(ManualModeSchedule(c))>>

\* the first poll started after the logged action returned has itself
\* returned, and nothing has started since
AtNextPoll == hist.log.polls = 2 /\ poll.pc = "done"

\* C13: set_temperature(T) on an entity whose mode is AUTO rewrites the
\* override schedule to the single entry (00:00, T) and assigns the circuit
\* to it, and at the next successful poll the entity's mode is HEAT
\* (HEAT_COOL with cooling enabled).
C13_SetTemperatureInAutoReadsHeat ==
    /\ SetTemperatureInAuto => OverrideWritten
    /\ (SetTemperatureInAuto /\ AtNextPoll) =>
          ent.climate[hist.log.c].hvac_mode = HeatMode

\* C13, amended: as C13, the entity's mode being HEAT (HEAT_COOL) at the next
\* successful poll whose snapshot contains the circuit; when that snapshot
\* omits the circuit the entity keeps the mode it had, AUTO or the mode a
\* poll overlapping the action has already delivered.
C13_SetTemperatureInAutoReadsHeatIfPresent ==
    /\ SetTemperatureInAuto => OverrideWritten
    /\ (SetTemperatureInAuto /\ AtNextPoll) =>
          IF hist.log.c \in DOMAIN Val(data).circuits
          THEN ent.climate[hist.log.c].hvac_mode = HeatMode
          ELSE ent.climate[hist.log.c].hvac_mode \in {HVAC_AUTO, HeatMode}

\* C13 witness: with cooling enabled, the next poll after set_temperature(23)
\* in AUTO has delivered HEAT_COOL for the circuit
C13_Witness ==
    /\ SetTemperatureInAuto
    /\ AtNextPoll
    /\ hist.log.c = "0"
    /\ hist.log.temperature = Some(23)
    /\ "0" \in DOMAIN Val(data).circuits
    /\ ent.enable_cooling
    /\ ent.climate["0"].hvac_mode = HVAC_HEAT_COOL
    /\ dev.schedule[30] = <<[time |-> "00:00", temperature |-> 23]>>

\* C14: once set_temperature on a circuit has completed, after any sequence
\* of actions and polls, the circuit is in a heat mode on the controller:
\* assigned to its override schedule and not summer-assigned; also when the
\* set_temperature follows a set_hvac_mode(AUTO) or (OFF) on the circuit
\* that no poll has yet shown to the entity.
C14_SetTemperatureEndsInHeat ==
    Completed("set_temperature") =>
        LET c == hist.log.c
        IN /\ dev.circuit_schedules[IntOf(c)].day_schedules
                  = <<IntOf(ManualModeSchedule(c))>>
           /\ ~dev.summer_mode_assignments[IntOf(c)]

\* every configured circuit is summer-assigned in snapshot s
AllSummerAssigned(s) ==
    \A c \in CircuitIds : s.summer_mode_assignments[IntOf(c)]

\* C16: for every snapshot, the power switch is on if and only if summer mode
\* is not active and not all configured circuits are summer-assigned.
C16_PowerOnIffNeither ==
    ent.delivered =>
        ( Val(ent.power_is_on)
            = ( ~Val(data).summer_mode /\ ~AllSummerAssigned(Val(data)) ) )

\* C16, amended: for every snapshot, the power switch is off if and only if
\* summer mode is active and all configured circuits are summer-assigned; it
\* is on when either fails.
C16_PowerOffIffBoth ==
    ent.delivered =>
        ( Val(ent.power_is_on)
            = ~( Val(data).summer_mode /\ AllSummerAssigned(Val(data)) ) )

\* C16 witness: the switch reads on for a snapshot with summer mode active
\* and one configured circuit assigned to it, the other not
C16_Witness ==
    /\ ent.delivered
    /\ Val(data).summer_mode
    /\ Val(data).summer_mode_assignments[0]
    /\ ~Val(data).summer_mode_assignments[1]
    /\ ent.power_is_on = Some(TRUE)

ConfiguredIds == {IntOf(c) : c \in CircuitIds}

\* C17: after any sequence of polls, polls whose snapshot omitted a circuit
\* included, turn_off of the power switch leaves every configured circuit
\* summer-assigned with summer mode on, and turn_on leaves every configured
\* circuit unassigned with summer mode off; the switch then reads off,
\* respectively on, at the next successful poll.
C17_PowerSwitchCoversConfiguredCircuits ==
    /\ Completed("power") =>
          /\ dev.summer_mode = (hist.log.mode = "off")
          /\ \A i \in ConfiguredIds :
                dev.summer_mode_assignments[i] = (hist.log.mode = "off")
    /\ (Completed("power") /\ AtNextPoll) =>
          ent.power_is_on = Some(hist.log.mode = "on")

\* C18: after any sequence of polls, polls whose snapshot omitted a circuit
\* included, turning the away switch on leaves every configured circuit
\* low-mode-assigned, and the global low-mode enable is written only if low
\* mode was disabled before.
C18_AwayOnCoversConfiguredCircuits ==
    (Completed("away") /\ hist.log.mode = "on") =>
        /\ \A i \in ConfiguredIds : dev.low_mode_assignments[i]
        /\ dev.low_mode.enabled
        /\ "setLowMode" \in hist.log.calls => ~LogPre.low_mode.enabled

\* C19: turning the away switch off removes every configured circuit from
\* the low-mode assignment and disables low mode only once no circuit at all
\* remains assigned: with a circuit still assigned after the removal, low
\* mode stays enabled.  (Stated for a switch whose stored snapshot holds
\* every configured circuit.)
C19_AwayOffKeepsLowModeWhileAssigned ==
    ( /\ Completed("away")
      /\ hist.log.mode = "off"
      /\ hist.log.ids = ConfiguredIds ) =>
        /\ \A i \in ConfiguredIds : ~dev.low_mode_assignments[i]
        /\ IF AnyOf(dev.low_mode_assignments)
           THEN dev.low_mode.enabled = LogPre.low_mode.enabled
           ELSE ~dev.low_mode.enabled

\* C20: set_preset_mode(away) leaves the circuit low-mode-assigned and low
\* mode enabled, setLowMode being called, with the configured away
\* temperature, exactly when low mode was not enabled; set_preset_mode(none)
\* leaves the circuit unassigned and low mode switched off exactly when no
\* circuit at all remains assigned.  The other circuits' assignments are as
\* before.
C20_SetPresetModeLowContract ==
    Completed("set_preset_mode") =>
        LET c == IntOf(hist.log.c)
            called == "setLowMode" \in hist.log.calls
        IN /\ \A i \in DeviceCircuits \ {c} :
                 dev.low_mode_assignments[i] = LogPre.low_mode_assignments[i]
           /\ ~called => dev.low_mode = LogPre.low_mode
           /\ IF hist.log.mode = CLIMATE_PRESET_AWAY
              THEN /\ dev.low_mode_assignments[c]
                   /\ dev.low_mode.enabled
                   /\ called = ~LogPre.low_mode.enabled
                   /\ called => dev.low_mode.temperature
                                    = Some(DEFAULT_AWAY_TEMPERATURE)
              ELSE /\ ~dev.low_mode_assignments[c]
                   /\ called = ~AnyOf(dev.low_mode_assignments)
                   /\ called => ~dev.low_mode.enabled

\* C20 witness: set_preset_mode(none) on the last assigned circuit has
\* switched low mode off, after set_preset_mode(away) on it had switched low
\* mode on at the away temperature
C20_Witness ==
    /\ Completed("set_preset_mode")
    /\ hist.log.mode = CLIMATE_PRESET_NONE
    /\ hist.log.c = "1"
    /\ LogPre.low_mode = [enabled |-> TRUE, temperature |-> Some(18)]
    /\ LogPre.low_mode_assignments[1]
    /\ ~dev.low_mode.enabled
    /\ ~IsNone(hist.log.before)
    /\ Val(hist.log.before).mode = CLIMATE_PRESET_AWAY
    /\ "setLowMode" \in Val(hist.log.before).calls

\* the pybmr calls of each action, in the order of the code: the calls that
\* can have been made when the call at a position raises
CallsBefore(kind, pc) ==
    IF kind = "set_hvac_mode"
    THEN CASE pc = "setSummerModeAssignments" -> {}
           [] pc = "setCircuitSchedules" ->
                 {"setSummerModeAssignments", "setSummerMode"}
           [] OTHER -> {"setSummerModeAssignments"}
    ELSE IF kind = "set_temperature"
    THEN CASE pc = "setSchedule" -> {}
           [] pc = "setSummerModeAssignments" -> {"setSchedule"}
           [] pc = "setCircuitSchedules" ->
                 {"setSchedule", "setSummerModeAssignments", "setSummerMode"}
           [] OTHER -> {"setSchedule", "setSummerModeAssignments"}
    ELSE IF kind = "set_preset_mode"
    THEN IF pc = "setLowModeAssignments" THEN {}
         ELSE {"setLowModeAssignments"}
    ELSE IF kind = "power"
    THEN IF pc = "setSummerMode" THEN {} ELSE {"setSummerMode"}
    ELSE IF pc = "setLowModeAssignments" THEN {}
         ELSE {"setLowModeAssignments"}

\* C21: when a pybmr call of an entity action raises, the action is over at
\* that call: the call is not made again, no call that follows it in the
\* code is made, the action has not returned and it has requested no
\* refresh.  A refresh is requested only by an action of which no call
\* raised, and every action that returns has requested one.
C21_FailedCallStopsAction ==
    /\ hist.log.raised # "" =>
          /\ tasks[1] = TaskIdle
          /\ ~hist.log.done
          /\ hist.log.refreshes = 0
          /\ hist.log.raised \notin hist.log.calls
          /\ hist.log.calls \subseteq CallsBefore(hist.log.kind, hist.log.raised)
    /\ hist.log.refreshes > 0 => (hist.log.done /\ hist.log.raised = "")
    /\ hist.log.done => hist.log.refreshes > 0

\* C21 witness: the setSummerMode call of the set_hvac_mode that
\* set_temperature awaits has raised, after the override schedule was
\* rewritten and the circuit unassigned from summer mode
C21_Witness ==
    /\ hist.log.kind = "set_temperature"
    /\ hist.log.raised = "setSummerMode"
    /\ hist.log.calls = {"setSchedule", "setSummerModeAssignments"}
    /\ hist.log.refreshes = 0
    /\ tasks[1] = TaskIdle
    /\ dev.schedule[30] = ConstantTimetable(20)
    /\ dev.circuit_schedules[0].day_schedules = <<1, 2>>

\* the first successful poll has returned and no later one has
FirstSnapshot == poll.pc = "done" /\ ent.subscribed /\ ~ent.delivered

\* C22: with no previous state the sanity check accepts every reading,
\* whatever its id and its temperature, None included; every reading of a
\* poll that runs while no snapshot is stored is accepted, and the first
\* snapshot stored holds every configured circuit with the values read.
C22_FirstPollAcceptsEverything ==
    /\ \A r \in CheckReadings : sanity_check_circuit_state(r, None)
    /\ IsNone(data) => \A c \in DOMAIN poll.accepted : poll.accepted[c]
    /\ FirstSnapshot =>
          /\ DOMAIN Val(data).circuits = CircuitIds
          /\ \A c \in CircuitIds : Val(data).circuits[c] = poll.fetched[c]

\* C22 witness: the first snapshot holds circuit "0" with no temperature
\* and circuit "1" with the higher temperature
C22_Witness ==
    /\ FirstSnapshot
    /\ DOMAIN Val(data).circuits = CircuitIds
    /\ Val(data).circuits["0"].temperature = None
    /\ Val(data).circuits["1"].temperature = Some(22)

\* the sanity check has been applied to a reading without a temperature
CheckedUndefined == chk.pc = "done" /\ IsNone(chk.new.temperature)

\* C23: a reading whose temperature is None is rejected whatever the
\* previous state is, no previous state included.
C23_UndefinedTemperatureRejected ==
    CheckedUndefined => ~chk.result

\* C23, amended: a reading whose temperature is None is rejected whenever
\* there is a previous state, whatever it holds; with no previous state it
\* is accepted.
C23_UndefinedTemperatureRejectedGivenPrevious ==
    CheckedUndefined => (chk.result = IsNone(chk.prev))

\* C23 witness: a reading without a temperature is rejected against a
\* previous state of the same circuit that has none either
C23_Witness ==
    /\ CheckedUndefined
    /\ chk.new.id = 1
    /\ chk.prev = Some([id |-> 1, temperature |-> None])
    /\ ~chk.result

\* the action C24 gives for circuit c of snapshot s
ActionBySnapshot(s, c) ==
    IF s.summer_mode_assignments[IntOf(c)] THEN "off"
    ELSE IF s.circuits[c].heating THEN "heating"
    ELSE IF s.circuits[c].cooling THEN "cooling"
    ELSE "idle"

\* C24: for every snapshot containing the circuit the climate action is OFF
\* if the circuit is summer-assigned, else HEATING if its heating flag is
\* set, else COOLING if its cooling flag is set, else IDLE; the action is OFF
\* exactly when the mode is OFF, and two circuits not OFF with the same
\* flags have the same action whatever their modes.
C24_ActionPrecedence ==
    ent.delivered =>
        \A c \in DOMAIN Val(data).circuits :
            /\ ent.climate[c].hvac_action = ActionBySnapshot(Val(data), c)
            /\ (ent.climate[c].hvac_action = "off")
                  = (ent.climate[c].hvac_mode = HVAC_OFF)
            /\ \A x \in DOMAIN Val(data).circuits :
                  ( /\ ent.climate[c].hvac_mode # HVAC_OFF
                    /\ ent.climate[x].hvac_mode # HVAC_OFF
                    /\ Val(data).circuits[c].heating = Val(data).circuits[x].heating
                    /\ Val(data).circuits[c].cooling = Val(data).circuits[x].cooling )
                  => ent.climate[c].hvac_action = ent.climate[x].hvac_action

\* C24 witness: circuit "0", in HEAT and with both flags set, reads HEATING,
\* and so does circuit "1", in AUTO and with both flags set
C24_Witness ==
    /\ ent.delivered
    /\ ent.climate["0"].hvac_mode = HVAC_HEAT
    /\ Val(data).circuits["0"].heating
    /\ Val(data).circuits["0"].cooling
    /\ ent.climate["0"].hvac_action = "heating"
    /\ ent.climate["1"].hvac_mode = HVAC_AUTO
    /\ Val(data).circuits["1"].heating
    /\ Val(data).circuits["1"].cooling
    /\ ent.climate["1"].hvac_action = "heating"

\* the configured circuits the stored snapshot does not hold
Omitted == CircuitIds \ DOMAIN Val(data).circuits

\* C25: no circuit is omitted from two successive stored snapshots, polls
\* that failed between them or not: a circuit the stored snapshot omits has
\* no previous state in the next poll, its reading is accepted and the next
\* snapshot holds it with the values read.
C25_NotOmittedTwice ==
    /\ (PollInFlight /\ ~IsNone(data)) =>
          \A c \in DOMAIN poll.accepted \cap Omitted : poll.accepted[c]
    /\ poll.pc = "done" =>
          /\ hist.last.omitted \cap Omitted = {}
          /\ \A c \in hist.last.omitted :
                /\ poll.accepted[c]
                /\ Val(data).circuits[c] = poll.fetched[c]

\* C25 witness: circuit "0" is back in the snapshot at 22 degrees after a
\* snapshot that omitted it; the snapshot before that one held it at 16
C25_Witness ==
    /\ poll.pc = "done"
    /\ "0" \in hist.last.omitted
    /\ hist.last.temps["0"] = Some(Some(16))
    /\ Val(data).circuits["0"].temperature = Some(22)
    /\ ent.temperature["0"].native_value = Some(22)

\* no action is in flight, and a poll started after the last action returned
\* has returned
Quiescent ==
    /\ tasks[1] = TaskIdle
    /\ poll.pc = "done"
    /\ hist.log.kind # "" => (hist.log.done /\ hist.log.polls >= 2)

\* C26: from a controller with summer mode on exactly when a circuit is
\* assigned to it, after any sequence of actions one at a time (set_hvac_mode,
\* set_temperature, power switch) and polls, a climate entity that reads OFF
\* means that the controller's summer mode is on.  (Stated for the entities
\* of the circuits the snapshot holds, once a poll has shown the last
\* action's effect.)
C26_OffImpliesSummerMode ==
    Quiescent =>
        \A c \in DOMAIN Val(data).circuits :
            ent.climate[c].hvac_mode = HVAC_OFF => dev.summer_mode

\* both actions have returned, and a poll has stored the controller's flags
\* and lists as they left them
RaceSettled ==
    /\ \A t \in TaskIds : tasks[t] = TaskIdle
    /\ poll.pc = "done"
    /\ FlagsOf(Val(data)) = FlagsOf(dev)

\* C27: when set_hvac_mode(OFF) on one circuit and set_hvac_mode with
\* another mode on another circuit interleave call by call, from a
\* controller with summer mode on exactly when a circuit is assigned, then
\* once both have returned and a poll has run, summer mode is on exactly
\* when a circuit is assigned to it.
C27_RaceEndsConsistent ==
    RaceSettled =>
        /\ dev.summer_mode = AnyOf(dev.summer_mode_assignments)
        /\ Val(data).summer_mode = AnyOf(Val(data).summer_mode_assignments)

\* the preset C28 gives for snapshot s
PresetBySnapshot(s) ==
    IF s.low_mode.enabled THEN CLIMATE_PRESET_AWAY ELSE CLIMATE_PRESET_NONE

\* set_preset_mode(none) has completed on a circuit while low mode was on
\* and another circuit stays assigned to it, and a poll has handed the
\* entities the controller's flags and lists as the action left them
NoneWhileOthersAssigned ==
    /\ Completed("set_preset_mode")
    /\ hist.log.mode = CLIMATE_PRESET_NONE
    /\ LogPre.low_mode.enabled
    /\ AnyOf(dev.low_mode_assignments)
    /\ tasks[1] = TaskIdle
    /\ poll.pc = "done"
    /\ ent.delivered
    /\ FlagsOf(Val(data)) = FlagsOf(dev)

\* C28: the preset of a climate entity is away exactly when the snapshot's
\* low mode is enabled, whatever the circuit's own assignment: after every
\* poll all climate entities read the same preset, and after
\* set_preset_mode(none) on a circuit while another circuit stays assigned
\* the entity still reads away.
C28_PresetFollowsGlobalFlag ==
    /\ ent.delivered =>
          \A c \in CircuitIds :
              ent.climate[c].preset_mode = PresetBySnapshot(Val(data))
    /\ NoneWhileOthersAssigned =>
          ent.climate[hist.log.c].preset_mode = CLIMATE_PRESET_AWAY

\* C28, amended: as C28 for the entities of the circuits the snapshot holds;
\* the entity of a circuit the snapshot omits keeps the preset it had.
C28_PresetFollowsGlobalFlagIfPresent ==
    /\ ent.delivered =>
          \A c \in DOMAIN Val(data).circuits :
              ent.climate[c].preset_mode = PresetBySnapshot(Val(data))
    /\ NoneWhileOthersAssigned =>
          ( hist.log.c \in DOMAIN Val(data).circuits =>
              /\ ~Val(data).low_mode_assignments[IntOf(hist.log.c)]
              /\ ent.climate[hist.log.c].preset_mode = CLIMATE_PRESET_AWAY )

\* C28 witness: after set_preset_mode(none) on circuit "0", which was
\* assigned, with circuit 1 still assigned, a poll leaves both entities
\* reading away
C28_Witness ==
    /\ NoneWhileOthersAssigned
    /\ hist.log.c = "0"
    /\ LogPre.low_mode_assignments[0]
    /\ ~dev.low_mode_assignments[0]
    /\ dev.low_mode_assignments[1]
    /\ DOMAIN Val(data).circuits = CircuitIds
    /\ ent.climate["0"].preset_mode = CLIMATE_PRESET_AWAY
    /\ ent.climate["1"].preset_mode = CLIMATE_PRESET_AWAY


\* the mode a poll derives for circuit c from the controller in state v
ModeByController(v, c, enable_cooling) ==
    ModeBySnapshot(
        [summer_mode_assignments |-> v.summer_mode_assignments,
         circuits |-> [x \in CircuitIds |->
                          [schedules |-> v.circuit_schedules[IntOf(x)]]]],
        c, enable_cooling)

ClimateKinds == {"set_hvac_mode", "set_preset_mode", "set_temperature"}

\* a climate action is logged, in flight or returned
ClimateActionLogged == hist.log.kind \in ClimateKinds /\ ~IsNone(hist.log.pre)

\* C29: a climate action on circuit A (set_hvac_mode, set_preset_mode,
\* set_temperature) never changes the summer-mode assignment flag, the
\* low-mode assignment flag or the schedule assignment of any other circuit
\* B, at any of its calls; and at the first poll started after the action
\* returned the entity of every other circuit B reads the mode that the
\* controller's state before the action gives it.
C29_OtherCircuitsUnchanged ==
    /\ ClimateActionLogged =>
          \A i \in DeviceCircuits \ {IntOf(hist.log.c)} :
              /\ dev.summer_mode_assignments[i]
                    = LogPre.summer_mode_assignments[i]
              /\ dev.low_mode_assignments[i] = LogPre.low_mode_assignments[i]
              /\ dev.circuit_schedules[i] = LogPre.circuit_schedules[i]
    /\ (ClimateActionLogged /\ hist.log.done /\ AtNextPoll) =>
          \A b \in DOMAIN Val(data).circuits \ {hist.log.c} :
              ent.climate[b].hvac_mode
                  = ModeByController(LogPre, b, ent.enable_cooling)

\* C29 witness: set_hvac_mode(OFF) on circuit "0" has turned summer mode on
\* while circuit "1" was on its rotation and not summer-assigned, and at the
\* next poll circuit "0" reads OFF and circuit "1" still AUTO
C29_Witness ==
    /\ Completed("set_hvac_mode")
    /\ hist.log.c = "0"
    /\ hist.log.mode = HVAC_OFF
    /\ ~LogPre.summer_mode
    /\ dev.summer_mode
    /\ AtNextPoll
    /\ ent.climate["0"].hvac_mode = HVAC_OFF
    /\ ent.climate["1"].hvac_mode = HVAC_AUTO


\* s contains u as a substring
Contains(s, u) ==
    \E i \in 1..(Len(s) - Len(u) + 1) : SubSeq(s, i, i + Len(u) - 1) = u

\* the unique id of the controller of entity x
ControllerOf(x) == Entry(x.entry).unique_id

\* C30: every entity created by the integration (climate, the two
\* temperature sensors, HDO binary sensor, away switch, power switch) has a
\* unique id that contains its controller's unique id, and no two entities
\* of different controllers have the same unique id.
C30_UniqueIdsContainController ==
    /\ \A x \in ent.registry.entities :
          Contains(x.unique_id, ControllerOf(x))
    /\ \A x, y \in ent.registry.entities :
          x.entry # y.entry => x.unique_id # y.unique_id

=============================================================================
